---- MODULE Spec2Model ----
(***************************************************************************)
(* State-machine model of the request orchestration code of h5-chaos:      *)
(*   - CancelManager   (core/http cancelManager: requestMap + the          *)
(*                      executeWithConcurrency gate)                       *)
(*   - RequestManager  (core/request manager, with RequestQueue and        *)
(*                      RetryStrategy)                                     *)
(*   - ConcurrencyHandler (request interceptor: dedupe + gate)             *)
(*   - HttpClientImpl  (core/http request, on top of CancelManager)        *)
(* Each component has its own variables, actions and specification; the    *)
(* variables of the other components stay at their initial values.         *)
(*                                                                         *)
(* JavaScript is single-threaded: a handler runs to its next await, and    *)
(* the continuations it schedules (microtasks) run before the next timer   *)
(* or network event.  Every action below is one such run; where a caller   *)
(* can issue a request between two continuations (ConcurrencyHandler), the *)
(* continuations are actions of their own.                                 *)
(***************************************************************************)
EXTENDS Integers, Sequences, FiniteSets, TLC

(***************************************************************************)
(* Bounds of the model.                                                    *)
(***************************************************************************)
\* number of calls of CancelManager.executeWithConcurrency that are issued
NumCalls == 5
\* largest concurrency limit a manager is constructed with
MaxLimit == 2

\* number of top-level calls of RequestManager.request that are issued
NumRequests == 3
\* number of requests that pass through ConcurrencyHandler.requestInterceptor
NumIntercepted == 3
\* number of distinct request keys (ConcurrencyHandler)
NumKeys == 2
\* number of distinct values of config.data (HttpClientImpl)
NumBodies == 2
\* number of calls of HttpClientImpl.request
NumClientRequests == 2
\* number of calls of the services Request.request
NumServiceRequests == 2
\* number of distinct cache keys
NumCacheKeys == 1
\* the clock (Date.now(), in units of the model) runs from 0 to MaxTime
MaxTime == 4
\* largest expire time passed to a cache or configured as its default
MaxTtl == 2
\* largest capacity of the http CacheManager
MaxCapacity == 2
\* number of calls of the http CacheManager's get
NumLookups == 2
\* largest maxRetries a request config carries
MaxRetries == 3
\* number of calls of AxiosHttpClient.request
NumAxCalls == 3
\* number of requests that pass HttpClientImpl's request interceptor
NumSends == 2
\* largest baseDelay and largest maxDelay of a RetryStrategy, in time units
MaxBaseDelay == 2
MaxDelay == 4

\* the limit of a manager constructed without one (CancelManager,
\* RequestManager)
DefaultMaxConcurrent == 5

Calls == 1..NumCalls
Limits == 1..MaxLimit

VARIABLES
  \* ---- CancelManager (src/unnamed/part_014:384-395)
  maxConcurrentRequests,  \* this.maxConcurrentRequests
  currentRequests,        \* this.currentRequests
  requestQueue,           \* this.requestQueue: the queued closures, by call
  cmPhase,                \* per call: where its executeWithConcurrency stands
  cmVia,                  \* per call: how fn() was started ("direct" | "queue")
  \* ---- RequestManager (src/unnamed/part_021:27-75)
  ch,                     \* ---- ConcurrencyHandler (src/unnamed/part_016:39-54):
                          \* maxConcurrent, pendingRequests, executingRequests,
                          \* waitingQueue; transports, the calls made by
                          \* createControlledRequest; reqs, the requests that
                          \* entered requestInterceptor
  hc,                     \* ---- HttpClientImpl with the cancelManager and
                          \* cacheManager singletons (src/unnamed/part_017):
                          \* requestMap (CancelManager.requestMap, by key: the
                          \* request whose cancel source is recorded), cache
                          \* (CacheManager.cache keys) and reqs, the calls of
                          \* request() made so far
  rs,                     \* ---- RetryStrategy (src/src/core/request/retry.ts):
                          \* one call of shouldRetry: its arguments and, once it
                          \* has returned, its result
  sv,                     \* ---- services Request (src/unnamed/part_026):
                          \* loadingCount and reqs, the calls of request()
  rc,                     \* ---- core/request CacheManager (src/unnamed/part_019):
                          \* now (Date.now()), defaultExpireTime, cache, and
                          \* what the latest set of each key and the latest get
                          \* were and returned
  eh,                     \* ---- ErrorHandler (src/src/core/http/errorHandler.ts):
                          \* one call of getErrorType: its argument and, once
                          \* it has returned or thrown, its outcome
  au,                     \* ---- HttpClientImpl.authToken (src/unnamed/part_017:25)
                          \* and sent, the requests the request interceptor
                          \* has passed to the adapter
  rd,                     \* ---- one RetryStrategy.executeWithRetry call
                          \* (src/src/core/request/retry.ts:113-149): config,
                          \* retryCount, pc and the timers it has set
  kg,                     \* ---- the key functions: two request configs and,
                          \* once generated, the keys of both
  ax,                     \* ---- AxiosHttpClient (src/src/core/http/request.ts):
                          \* per call of request(), its config and where its
                          \* answer came from
  cc,                     \* ---- http CacheManager (src/unnamed/part_014:96-360):
                          \* now (Date.now()), defaultExpireTime, capacity,
                          \* cache (the Map, in insertion order), stats, and
                          \* ret, what the get that has just returned found
  rm                      \* the manager object: maxConcurrent, currentConcurrent,
                          \* queue (RequestQueue.queue), activeRequests, cache
                          \* (CacheManager.cache keys) and calls, the invocations
                          \* of request() made so far

cmVars == <<maxConcurrentRequests, currentRequests, requestQueue, cmPhase, cmVia>>
rmVars == <<rm>>
chVars == <<ch>>
hcVars == <<hc>>
rsVars == <<rs>>
svVars == <<sv>>
rcVars == <<rc>>
ccVars == <<cc>>
kgVars == <<kg>>
axVars == <<ax>>
ehVars == <<eh>>
auVars == <<au>>
rdVars == <<rd>>
extraVars == <<ehVars, auVars, rdVars>>

vars == <<cmVars, rmVars, chVars, hcVars, rsVars, svVars, rcVars, ccVars, kgVars, axVars, extraVars>>

(***************************************************************************)
(* CancelManager: the concurrency gate.                                    *)
(***************************************************************************)
\* new CancelManager(l)
cmInit(l) ==
  /\ maxConcurrentRequests = l
  /\ currentRequests = 0
  /\ requestQueue = <<>>
  /\ cmPhase = [c \in Calls |-> "idle"]
  /\ cmVia = [c \in Calls |-> "none"]

\* Calls are issued in the order of their numbers: c arrives before d iff c < d.
cmNextArrival(c) ==
  /\ cmPhase[c] = "idle"
  /\ \A d \in Calls : d < c => cmPhase[d] # "idle"

\* executeWithConcurrency(fn), up to its first suspension: at the limit the
\* closure is pushed on requestQueue, otherwise the counter is incremented and
\* fn() is started.
executeWithConcurrency(c) ==
  /\ cmNextArrival(c)
  /\ IF currentRequests >= maxConcurrentRequests
       THEN /\ requestQueue' = Append(requestQueue, c)
            /\ cmPhase' = [cmPhase EXCEPT ![c] = "queued"]
            /\ UNCHANGED <<currentRequests, cmVia>>
       ELSE /\ currentRequests' = currentRequests + 1
            /\ cmPhase' = [cmPhase EXCEPT ![c] = "running"]
            /\ cmVia' = [cmVia EXCEPT ![c] = "direct"]
            /\ UNCHANGED requestQueue
  /\ UNCHANGED maxConcurrentRequests

\* processNextRequest() with the counter at cur: the call whose closure is
\* shifted off the queue and invoked, or 0.  The closure runs fn() and settles
\* the caller's promise; it does not touch currentRequests.
processNextRequest(cur, queue, max) ==
  IF Len(queue) > 0 /\ cur < max THEN Head(queue) ELSE 0

\* fn() of call c settles (out = "resolved" | "rejected").
\* Direct path: the finally block decrements the counter and calls
\* processNextRequest.  Queue path: the closure resolves or rejects the
\* caller's promise and returns.
fnSettles(c, out) ==
  /\ cmPhase[c] = "running"
  /\ IF cmVia[c] = "direct"
       THEN LET cur == currentRequests - 1
                nxt == processNextRequest(cur, requestQueue, maxConcurrentRequests)
            IN /\ currentRequests' = cur
               /\ IF nxt # 0
                    THEN /\ requestQueue' = Tail(requestQueue)
                         /\ cmPhase' = [cmPhase EXCEPT ![c] = out, ![nxt] = "running"]
                         /\ cmVia' = [cmVia EXCEPT ![nxt] = "queue"]
                    ELSE /\ cmPhase' = [cmPhase EXCEPT ![c] = out]
                         /\ UNCHANGED <<requestQueue, cmVia>>
       ELSE /\ cmPhase' = [cmPhase EXCEPT ![c] = out]
            /\ UNCHANGED <<currentRequests, requestQueue, cmVia>>
  /\ UNCHANGED maxConcurrentRequests

\* The loop of setMaxConcurrentRequests: while the queue is not empty and the
\* counter is below max, processNextRequest shifts a closure off the queue and
\* invokes it.  The calls started, in the order they are started.
RECURSIVE cmDrain(_, _, _)
cmDrain(cur, queue, max) ==
  IF Len(queue) > 0 /\ cur < max
    THEN <<processNextRequest(cur, queue, max)>> \o cmDrain(cur, Tail(queue), max)
    ELSE <<>>

\* setMaxConcurrentRequests(max)
setMaxConcurrentRequests(max) ==
  LET started == cmDrain(currentRequests, requestQueue, max)
      isStarted(c) == \E i \in DOMAIN started : started[i] = c
  IN /\ maxConcurrentRequests' = max
     /\ requestQueue' = SubSeq(requestQueue, Len(started) + 1, Len(requestQueue))
     /\ cmPhase' = [c \in Calls |-> IF isStarted(c) THEN "running" ELSE cmPhase[c]]
     /\ cmVia' = [c \in Calls |-> IF isStarted(c) THEN "queue" ELSE cmVia[c]]
     /\ UNCHANGED currentRequests

cmSetMax == \E max \in Limits : setMaxConcurrentRequests(max)

cmArrive == \E c \in Calls : executeWithConcurrency(c)
cmSettle == \E c \in Calls, out \in {"resolved", "rejected"} : fnSettles(c, out)

cmRunning == {c \in Calls : cmPhase[c] = "running"}

(***************************************************************************)
(* RetryStrategy (src/src/core/request/retry.ts).                          *)
(***************************************************************************)
\* RetryStrategy.config.maxRetries, the default of the constructor
DefaultMaxRetries == 3

\* What one invocation of the transport (axiosInstance.request) can end in.
\* An axios error carries a string code when axios sets one, response.status
\* when the server answered, and a message; words are the retry keywords the
\* lower-cased message contains.
TransportResults ==
  {"ok", "http503", "http503_nocode", "http404", "network", "timeout", "cancel"}

AxiosError(res) ==
  CASE res = "http503"        -> [code |-> "ERR_BAD_RESPONSE", status |-> 503, words |-> {}]
    [] res = "http503_nocode" -> [code |-> "", status |-> 503, words |-> {}]
    [] res = "http404"        -> [code |-> "ERR_BAD_REQUEST", status |-> 404, words |-> {}]
    [] res = "network"        -> [code |-> "ERR_NETWORK", status |-> 0, words |-> {"network"}]
    [] res = "timeout"        -> [code |-> "ECONNABORTED", status |-> 0, words |-> {"timeout"}]
    [] res = "cancel"         -> [code |-> "ERR_CANCELED", status |-> 0, words |-> {}]

\* RetryStrategy.normalizeError: an error that already has code and message is
\* returned as it is; otherwise code = error.code || response.status || 500.
\* The result's code is a string (s) or a number (n).
normalizeError(e) ==
  IF e.code # ""
    THEN [s |-> e.code, n |-> 0, words |-> e.words]
    ELSE [s |-> "", n |-> IF e.status # 0 THEN e.status ELSE 500, words |-> e.words]

retryableCodeStrings == {"ECONNABORTED", "ETIMEDOUT", "ENOTFOUND", "ECONNREFUSED"}
retryableCodeNumbers == {408, 429, 500, 502, 503, 504}
retryableMessages == {"timeout", "network", "server", "gateway", "service unavailable"}

\* RetryStrategy.shouldRetry(error, retryCount, maxRetries)
shouldRetry(error, retryCount, maxRetries) ==
  IF retryCount >= maxRetries THEN FALSE
  ELSE IF error.s \in retryableCodeStrings \/ error.n \in retryableCodeNumbers THEN TRUE
  ELSE error.words \cap retryableMessages # {}

\* The errors shouldRetry is called with.  kind says what happened (it is not
\* a field of RequestError): "http" (the server answered with status n),
\* "network", "timeout", or "business" (the envelope reports a failure under
\* an application code).
RetryHttpStatuses == {400, 401, 404, 408, 429, 500, 501, 502, 503, 504, 505}
RetryWordSets == {{}, {"server"}, {"network"}, {"timeout"}}
RetryErrors ==
  [kind : {"http"}, s : {""}, n : RetryHttpStatuses, words : RetryWordSets]
    \cup [kind : {"network"}, s : {"ENOTFOUND", "ECONNREFUSED", "ERR_NETWORK"},
          n : {0}, words : {{}, {"network"}}]
    \cup [kind : {"timeout"}, s : {"ECONNABORTED", "ETIMEDOUT"},
          n : {0}, words : {{}, {"timeout"}}]
    \cup [kind : {"business"}, s : {"", "BUSINESS_ERROR"},
          n : {0, 10001}, words : RetryWordSets]

rsInput(e, retryCount, maxRetries) ==
  [error |-> e, retryCount |-> retryCount, maxRetries |-> maxRetries, result |-> <<>>]

\* A strategy that has not been asked anything.
rsIdle == rs = rsInput([kind |-> "http", s |-> "", n |-> 500, words |-> {}], 0, 0)

rsInit ==
  \E e \in RetryErrors, retryCount \in 0..MaxRetries, maxRetries \in 0..MaxRetries :
    rs = rsInput(e, retryCount, maxRetries)

\* The call shouldRetry(error, retryCount, maxRetries) returns.
rsShouldRetry ==
  /\ rs.result = <<>>
  /\ rs' = [rs EXCEPT !.result = <<shouldRetry(rs.error, rs.retryCount, rs.maxRetries)>>]

\* executeWithRetry: maxRetries ?? this.config.maxRetries (-1 stands for an
\* unset config.maxRetries)
maxRetriesToUse(cfg) ==
  IF cfg.maxRetries = -1 THEN DefaultMaxRetries ELSE cfg.maxRetries

\* The catch block of executeWithRetry after the failure res of the try with
\* index retryCount: TRUE iff the loop waits and tries again.
retryAfter(cfg, retryCount, res) ==
  /\ retryCount < maxRetriesToUse(cfg)
  /\ shouldRetry(normalizeError(AxiosError(res)), retryCount, maxRetriesToUse(cfg))

(***************************************************************************)
(* RetryStrategy: the delays (src/src/core/request/retry.ts:84-149).       *)
(* Delays are whole numbers of a time unit.                                *)
(***************************************************************************)
RECURSIVE pow2(_)
\* Math.pow(2, n)
pow2(n) == IF n = 0 THEN 1 ELSE 2 * pow2(n - 1)

\* Math.min(a, b)
min(a, b) == IF a < b THEN a ELSE b

\* The delay without the cap of maxDelay
getRetryDelayUncapped(config, retryCount) ==
  IF ~config.exponentialBackoff THEN config.baseDelay
  ELSE config.baseDelay * pow2(retryCount)

\* getRetryDelay(retryCount)
getRetryDelay(config, retryCount) ==
  IF ~config.exponentialBackoff THEN config.baseDelay
  ELSE min(config.baseDelay * pow2(retryCount), config.maxDelay)

\* The configurations of the constructor
RetryConfigs ==
  [maxRetries : 0..MaxRetries, baseDelay : 0..MaxBaseDelay,
   exponentialBackoff : BOOLEAN, maxDelay : 1..MaxDelay]

rdStart(config) ==
  [config |-> config, retryCount |-> 0, pc |-> "trying", timers |-> <<>>]

\* A strategy on which executeWithRetry is not used.
rdIdle ==
  rd = [rdStart([maxRetries |-> 0, baseDelay |-> 1, exponentialBackoff |-> TRUE,
                 maxDelay |-> 1]) EXCEPT !.pc = "idle"]

\* executeWithRetry(requestFn) has called requestFn for the first time.
rdInit == \E config \in RetryConfigs : rd = rdStart(config)

\* requestFn settles with res: the try returns, or the catch block throws or
\* sets the timer of createRetryDelay(retryCount).
rdRequestFnSettles(res) ==
  /\ rd.pc = "trying"
  /\ rd' = IF res = "ok" THEN [rd EXCEPT !.pc = "returned"]
           ELSE IF retryAfter(rd.config, rd.retryCount, res)
             THEN [rd EXCEPT !.pc = "waiting",
                             !.timers = Append(@, [retryCount |-> rd.retryCount,
                                                   delay |-> getRetryDelay(rd.config,
                                                                           rd.retryCount)])]
             ELSE [rd EXCEPT !.pc = "thrown"]

\* The timer of createRetryDelay fires: continue, retryCount++, requestFn() again.
rdTimerFires ==
  /\ rd.pc = "waiting"
  /\ rd' = [rd EXCEPT !.pc = "trying", !.retryCount = @ + 1]

(***************************************************************************)
(* Request keys: CacheManager.generateCacheKey (src/unnamed/part_014),     *)
(* RequestManager.generateCacheKey (src/unnamed/part_021) and              *)
(* ConcurrencyHandler.generateRequestKey (src/unnamed/part_016).           *)
(*                                                                         *)
(* A string is the sequence of its characters.  An object is the sequence  *)
(* of its properties [k, v] in the order Object.keys gives them (insertion *)
(* order); a value v is [atom, obj]: the number atom when obj is <<>>, and *)
(* otherwise the nested object obj, whose properties are [k, n] with n a   *)
(* number.  An optional field is <<>> when it is undefined and <<x>> when  *)
(* it is x; an undefined method is the empty string.                       *)
(***************************************************************************)
\* The property names of the model, in the order Array.prototype.sort gives.
KeyNames == <<"a", "b">>

Atom(n) == [atom |-> n, obj |-> <<>>]
Nested(o) == [atom |-> 0, obj |-> o]

\* JSON.stringify of a nested object: {"a":1,"b":1}, properties in their order.
RECURSIVE stringifyProps(_)
stringifyProps(o) ==
  IF o = <<>> THEN <<>>
  ELSE <<"\"", Head(o).k, "\"", ":", ToString(Head(o).n)>>
         \o (IF Tail(o) = <<>> THEN <<>> ELSE <<",">> \o stringifyProps(Tail(o)))

stringifyValue(v) ==
  IF v.obj = <<>> THEN <<ToString(v.atom)>>
  ELSE <<"{">> \o stringifyProps(v.obj) \o <<"}">>

RECURSIVE stringifyPairs(_)
stringifyPairs(o) ==
  IF o = <<>> THEN <<>>
  ELSE <<"\"", Head(o).k, "\"", ":">> \o stringifyValue(Head(o).v)
         \o (IF Tail(o) = <<>> THEN <<>> ELSE <<",">> \o stringifyPairs(Tail(o)))

\* JSON.stringify(obj) of an object
stringify(o) == <<"{">> \o stringifyPairs(o) \o <<"}">>

\* sortObject of generateRequestKey: the properties of obj itself are put in
\* the order of their sorted names; the values are copied as they are.
RECURSIVE sortedPairs(_, _)
sortedPairs(names, o) ==
  IF names = <<>> THEN <<>>
  ELSE SelectSeq(o, LAMBDA p : p.k = Head(names)) \o sortedPairs(Tail(names), o)

sortObject(o) == stringify(sortedPairs(KeyNames, o))

toUpperCase(method) ==
  IF method = "get" THEN <<"G", "E", "T">>
  ELSE IF method = "post" THEN <<"P", "O", "S", "T">>
  ELSE <<>>

toLowerCase(method) ==
  IF method = "get" THEN <<"g", "e", "t">>
  ELSE IF method = "post" THEN <<"p", "o", "s", "t">>
  ELSE <<>>

\* CacheManager.generateCacheKey: method defaults to "get", params and data to
\* {}; a GET is keyed by its params and any other method by its data.
CacheManager_generateCacheKey(config) ==
  LET method == IF config.method = "" THEN "get" ELSE config.method
      keyData == IF method = "get" THEN config.params ELSE config.data
  IN toUpperCase(method) \o <<"-">> \o config.url \o <<"-">>
       \o stringify(IF keyData = <<>> THEN <<>> ELSE keyData[1])

\* btoa is one-to-one; the encoded string is kept as what it encodes.
btoa(str) == [base64of |-> str]

\* RequestManager.generateCacheKey: btoa of method, url, JSON.stringify(params
\* || {}) and JSON.stringify(data || {}) joined by "|"; join writes an
\* undefined method as the empty string.  RequestManager's methods are
\* upper-case ("GET", "POST").
RequestManager_generateCacheKey(config) ==
  btoa(toUpperCase(config.method) \o <<"|">> \o config.url \o <<"|">>
         \o stringify(IF config.params = <<>> THEN <<>> ELSE config.params[1])
         \o <<"|">>
         \o stringify(IF config.data = <<>> THEN <<>> ELSE config.data[1]))

\* ConcurrencyHandler.generateRequestKey: url, lower-case method (default
\* "get"), and sortObject of params and of data, "" for an undefined one.
ConcurrencyHandler_generateRequestKey(config) ==
  LET method == IF config.method = "" THEN "get" ELSE config.method
  IN config.url \o <<"_">> \o toLowerCase(method) \o <<"_">>
       \o (IF config.params = <<>> THEN <<>> ELSE sortObject(config.params[1]))
       \o <<"_">>
       \o (IF config.data = <<>> THEN <<>> ELSE sortObject(config.data[1]))

\* String.prototype.includes
includes(str, sub) ==
  \E i \in 0..(Len(str) - Len(sub)) :
    \A j \in 1..Len(sub) : str[i + j] = sub[j]

\* The urls of the model: "/a" and "/ab".
KeyUrls == {<<"/", "a">>, <<"/", "a", "b">>}

\* The params and bodies of the model: undefined, {a:1}, {a:2}, {a:1,b:1},
\* {b:1,a:1}, {a:{a:1,b:1}} and {a:{b:1,a:1}}.
KeyObjects ==
  {<<>>} \cup
  {<<o>> : o \in
     {<<[k |-> "a", v |-> Atom(1)]>>,
      <<[k |-> "a", v |-> Atom(2)]>>,
      <<[k |-> "a", v |-> Atom(1)], [k |-> "b", v |-> Atom(1)]>>,
      <<[k |-> "b", v |-> Atom(1)], [k |-> "a", v |-> Atom(1)]>>,
      <<[k |-> "a", v |-> Nested(<<[k |-> "a", n |-> 1], [k |-> "b", n |-> 1]>>)]>>,
      <<[k |-> "a", v |-> Nested(<<[k |-> "b", n |-> 1], [k |-> "a", n |-> 1]>>)]>>}}

KeyConfigs ==
  [method : {"get", "post"}, url : KeyUrls, params : KeyObjects, data : KeyObjects]

\* The object without the order of its properties, at both levels.
unordered(opt) ==
  IF opt = <<>> THEN {}
  ELSE {[k |-> opt[1][i].k, atom |-> opt[1][i].v.atom,
         obj |-> {opt[1][i].v.obj[j] : j \in DOMAIN opt[1][i].v.obj}] :
          i \in DOMAIN opt[1]}

kgIdle == kg = [a |-> <<>>, b |-> <<>>, keys |-> <<>>]

\* Two request configs of a caller.
kgInit == \E a \in KeyConfigs, b \in KeyConfigs : kg = [a |-> <<a>>, b |-> <<b>>, keys |-> <<>>]

\* The three key functions are applied to both configs.
kgKeys(config) ==
  [cache   |-> CacheManager_generateCacheKey(config),
   manager |-> RequestManager_generateCacheKey(config),
   dedupe  |-> ConcurrencyHandler_generateRequestKey(config)]

kgGenerate ==
  /\ kg.keys = <<>>
  /\ kg' = [kg EXCEPT !.keys = <<[a |-> kgKeys(kg.a[1]), b |-> kgKeys(kg.b[1])]>>]

(***************************************************************************)
(* RequestManager (src/unnamed/part_021) with RequestQueue (part_022).     *)
(*                                                                         *)
(* rm.calls holds one record per invocation of request(): its config, the  *)
(* invocation whose queue item made it (parent, 0 for a caller of the      *)
(* public API), its position st, the results of its transport tries        *)
(* (hist), whether its cancel token was cancelled, and whether the         *)
(* then/catch/finally chain processQueue attached to it has run (wrapped), *)
(* and whether it was answered from the cache (hit).  A config is          *)
(* [id, key, cache, maxRetries]: key names what is requested (rmTargets),  *)
(* cache is <<>> when config.cache is unset and <<b>> when it is b.        *)
(* rm.cache holds the keys of the entries of the CacheManager that have    *)
(* not expired; rm.cleared holds the urls that clearCache was called for   *)
(* (every url after clearCache()) with no response stored for them since.  *)
(***************************************************************************)
Requests == 1..NumRequests

\* What a request asks for: GET /a, and GET /a with params {a: 1}.
rmTargets ==
  <<[method |-> "get", url |-> <<"/", "a">>, params |-> <<>>, data |-> <<>>],
    [method |-> "get", url |-> <<"/", "a">>,
     params |-> <<<<[k |-> "a", v |-> Atom(1)]>>>>, data |-> <<>>]>>

\* this.generateCacheKey(config)
rmCacheKey(cfg) == RequestManager_generateCacheKey(rmTargets[cfg.key])

\* config.cache !== false
rmCacheWanted(cfg) == cfg.cache # <<FALSE>>

\* new RequestManager({maxConcurrent: l})
rmInit(l) ==
  rm = [maxConcurrent     |-> l,
        currentConcurrent |-> 0,
        queue             |-> <<>>,
        activeRequests    |-> {},
        cache             |-> {},
        cleared           |-> {},
        calls             |-> <<>>]

rmSettledStates == {"resolved", "rejected"}

rmCall(cfg, parent, st) ==
  [cfg |-> cfg, parent |-> parent, st |-> st, hist |-> <<>>,
   cancelled |-> FALSE, wrapped |-> FALSE, hit |-> FALSE]

\* request(config) up to its first suspension, for the invocation made by
\* parent: a cache hit returns at once; at the limit the config is added to
\* the queue; otherwise the counter is incremented and executeRequest
\* registers the cancel source and issues the first transport try.
request(S, cfg, parent) ==
  LET id == Len(S.calls) + 1 IN
  IF rmCacheWanted(cfg) /\ rmCacheKey(cfg) \in S.cache
    THEN [S EXCEPT !.calls = Append(@, [rmCall(cfg, parent, "resolved") EXCEPT !.hit = TRUE])]
  ELSE IF S.currentConcurrent >= S.maxConcurrent
    THEN [S EXCEPT !.calls = Append(@, rmCall(cfg, parent, "queued")),
                   !.queue = Append(@, id)]
  ELSE [S EXCEPT !.calls = Append(@, rmCall(cfg, parent, "executing")),
                 !.currentConcurrent = @ + 1,
                 !.activeRequests = @ \cup {id}]

\* processQueue(): while a slot is free and the queue is not empty, remove the
\* head, increment the counter and call request() with its config.
RECURSIVE processQueue(_)
processQueue(S) ==
  IF S.currentConcurrent < S.maxConcurrent /\ S.queue # <<>>
    THEN LET item == Head(S.queue)
             S1 == [S EXCEPT !.queue = Tail(@),
                             !.currentConcurrent = @ + 1,
                             !.calls[item].st = "dequeued"]
         IN processQueue(request(S1, S.calls[item].cfg, item))
    ELSE S

\* The end of request() for an invocation c that was executing: executeRequest
\* deletes the cancel source, a response is cached when config.cache is not
\* false, and the finally block decrements the counter and calls processQueue.
requestFinally(S, c, out) ==
  LET cfg == S.calls[c].cfg
      S1 == [S EXCEPT !.calls[c].st = out,
                      !.activeRequests = @ \ {c},
                      !.cache = IF out = "resolved" /\ rmCacheWanted(cfg)
                                  THEN @ \cup {rmCacheKey(cfg)} ELSE @,
                      !.cleared = IF out = "resolved" /\ rmCacheWanted(cfg)
                                    THEN @ \ {rmTargets[cfg.key].url} ELSE @,
                      !.currentConcurrent = @ - 1]
  IN processQueue(S1)

\* Continuations that are scheduled and run before any timer or network event:
\* the chain processQueue attached to a settled invocation.
rmPendingWrappers(S) ==
  {c \in DOMAIN S.calls :
     /\ S.calls[c].parent # 0
     /\ S.calls[c].st \in rmSettledStates
     /\ ~S.calls[c].wrapped}

rmQuiet == rmPendingWrappers(rm) = {}

rmTopLevel == {c \in DOMAIN rm.calls : rm.calls[c].parent = 0}

\* A caller invokes request(cfg); requests are issued in the order of their ids.
rmRequest(cfg) ==
  /\ rmQuiet
  /\ cfg.id = Cardinality(rmTopLevel) + 1
  /\ rm' = request(rm, cfg, 0)

\* The transport try of invocation c ends with res, where a try that is to be
\* repeated gives up the slot of c for the delay: the counter is decremented
\* and processQueue is called.
transportSettlesReleasesSlot(c, res) ==
  /\ rmQuiet
  /\ c \in DOMAIN rm.calls
  /\ rm.calls[c].st = "executing"
  /\ rm.calls[c].cancelled <=> res = "cancel"
  /\ LET retryCount == Len(rm.calls[c].hist)
         S1 == [rm EXCEPT !.calls[c].hist = Append(@, res)]
     IN rm' = IF res = "ok" THEN requestFinally(S1, c, "resolved")
              ELSE IF retryAfter(rm.calls[c].cfg, retryCount, res)
                THEN processQueue([S1 EXCEPT !.calls[c].st = "backoff",
                                             !.currentConcurrent = @ - 1])
              ELSE requestFinally(S1, c, "rejected")

\* The transport try of invocation c ends with res.  A cancelled token makes
\* the try fail with the cancellation, and nothing else does.
transportSettles(c, res) ==
  /\ rmQuiet
  /\ c \in DOMAIN rm.calls
  /\ rm.calls[c].st = "executing"
  /\ rm.calls[c].cancelled <=> res = "cancel"
  /\ LET retryCount == Len(rm.calls[c].hist)
         S1 == [rm EXCEPT !.calls[c].hist = Append(@, res)]
     IN rm' = IF res = "ok" THEN requestFinally(S1, c, "resolved")
              ELSE IF retryAfter(rm.calls[c].cfg, retryCount, res)
                THEN [S1 EXCEPT !.calls[c].st = "backoff"]
              ELSE requestFinally(S1, c, "rejected")

\* The retry delay of invocation c elapses and requestFn() is called again; with
\* a cancelled token axios rejects before it reaches the network.
retryTimer(c) ==
  /\ rmQuiet
  /\ c \in DOMAIN rm.calls
  /\ rm.calls[c].st = "backoff"
  /\ rm' = IF rm.calls[c].cancelled
             THEN requestFinally([rm EXCEPT !.calls[c].hist = Append(@, "cancel")],
                                 c, "rejected")
             ELSE [rm EXCEPT !.calls[c].st = "executing"]

\* The chain processQueue attached to invocation c runs: the queue item's
\* resolve or reject settles the parent, then the counter is decremented and
\* processQueue is called.
wrapperRuns(c) ==
  /\ c \in rmPendingWrappers(rm)
  /\ LET p == rm.calls[c].parent
         S1 == [rm EXCEPT !.calls[c].wrapped = TRUE,
                          !.calls[p].st = rm.calls[c].st,
                          !.currentConcurrent = @ - 1]
     IN rm' = processQueue(S1)

\* RequestQueue.removeItemByRequestId: the first item with that requestId is
\* rejected and spliced out.
RECURSIVE removeFirst(_, _, _)
removeFirst(S, q, r) ==
  IF q = <<>> THEN <<>>
  ELSE IF S.calls[Head(q)].cfg.id = r THEN Tail(q)
  ELSE <<Head(q)>> \o removeFirst(S, Tail(q), r)

rmQueuedWithId(S, r) ==
  {i \in 1..Len(S.queue) : S.calls[S.queue[i]].cfg.id = r}

\* cancelRequest(requestId)
cancelRequest(r) ==
  /\ rmQuiet
  /\ LET act == {c \in rm.activeRequests : rm.calls[c].cfg.id = r}
         idx == rmQueuedWithId(rm, r)
         first == IF idx = {} THEN 0
                  ELSE rm.queue[CHOOSE i \in idx : \A j \in idx : i <= j]
     IN /\ act # {} \/ first # 0
        /\ rm' = [rm EXCEPT
                    !.activeRequests = @ \ act,
                    !.queue = removeFirst(rm, @, r),
                    !.calls = [c \in DOMAIN @ |->
                                 IF c \in act THEN [@[c] EXCEPT !.cancelled = TRUE]
                                 ELSE IF c = first THEN [@[c] EXCEPT !.st = "rejected"]
                                 ELSE @[c]]]

\* cancelAllRequests()
cancelAllRequests ==
  /\ rmQuiet
  /\ rm.calls # <<>>
  /\ LET queued == {rm.queue[i] : i \in 1..Len(rm.queue)}
     IN rm' = [rm EXCEPT
                 !.activeRequests = {},
                 !.queue = <<>>,
                 !.currentConcurrent = 0,
                 !.calls = [c \in DOMAIN @ |->
                              IF c \in rm.activeRequests THEN [@[c] EXCEPT !.cancelled = TRUE]
                              ELSE IF c \in queued THEN [@[c] EXCEPT !.st = "rejected"]
                              ELSE @[c]]]

\* clearCache(url): the key of {url} is deleted; clearCache(): the cache is
\* cleared.  url is <<>> or <<u>>.
clearCache(url) ==
  /\ rmQuiet
  /\ rm' = IF url # <<>>
             THEN [rm EXCEPT
                     !.cache = @ \ {RequestManager_generateCacheKey(
                                      [method |-> "", url |-> url[1],
                                       params |-> <<>>, data |-> <<>>])},
                     !.cleared = @ \cup {url[1]}]
             ELSE [rm EXCEPT !.cache = {}, !.cleared = KeyUrls]

\* Request configs: requestId, what is requested, cache, maxRetries.
rmKeyedConfigs(ids, keys, caches, retries) ==
  [id : ids, key : keys, cache : caches, maxRetries : retries]

rmConfigs(ids, caches, retries) == rmKeyedConfigs(ids, {1}, caches, retries)

rmClearCache == \E url \in {<<>>} \cup {<<u>> : u \in KeyUrls} : clearCache(url)

rmArrive(cfgs) == \E cfg \in cfgs : rmRequest(cfg)
rmTransport(results) ==
  \E c \in DOMAIN rm.calls, res \in results : transportSettles(c, res)
rmRetry == \E c \in DOMAIN rm.calls : retryTimer(c)
rmWrapper == \E c \in DOMAIN rm.calls : wrapperRuns(c)
rmCancel == \E r \in Requests : cancelRequest(r)
rmCancelAll == cancelAllRequests

rmExecuting == {c \in DOMAIN rm.calls : rm.calls[c].st \in {"executing", "backoff"}}

(***************************************************************************)
(* ConcurrencyHandler (src/unnamed/part_016).                              *)
(*                                                                         *)
(* A request is at pc                                                      *)
(*   "waiting"  its resolver is in waitingQueue                            *)
(*   "resumed"  waitForExecution has resolved, the code after the await    *)
(*              has not run yet                                            *)
(*   "adapter"  the interceptor has returned, axios has not called         *)
(*              config.adapter yet                                         *)
(*   "awaiting" the adapter has returned the promise of transport rec      *)
(*   "own"      the request uses its own transport call (skipDuplicateCheck)*)
(*   "resolved" | "rejected"                                               *)
(* "resumed" and "adapter" are left by continuations, which run before any *)
(* network event; other requests may enter the interceptor in between.     *)
(***************************************************************************)
Keys == 1..NumKeys

chInit(l) ==
  ch = [maxConcurrent     |-> l,
        pendingRequests   |-> [k \in Keys |-> 0],
        executingRequests |-> {},
        waitingQueue      |-> <<>>,
        transports        |-> <<>>,
        reqs              |-> <<>>]

chReq(key, skipDup, skipConc, pc, rec, release) ==
  [key |-> key, skipDuplicateCheck |-> skipDup, skipConcurrencyControl |-> skipConc,
   pc |-> pc, rec |-> rec, release |-> release]

\* waitForExecution() for the request with index r, whose record is req: it
\* returns at once below the limit, otherwise the resolver is pushed on
\* waitingQueue.
waitForExecution(S, r, req) ==
  IF Cardinality(S.executingRequests) < S.maxConcurrent
    THEN [S EXCEPT !.reqs = Append(@, [req EXCEPT !.pc = "resumed"])]
    ELSE [S EXCEPT !.reqs = Append(@, [req EXCEPT !.pc = "waiting"]),
                   !.waitingQueue = Append(@, r)]

\* requestInterceptor(config), up to its first suspension.  A new request
\* calls createControlledRequest, which issues the transport call, before it
\* waits for a slot.
requestInterceptor(S, key, skipDup, skipConc) ==
  LET r == Len(S.reqs) + 1
      t == Len(S.transports) + 1
      existing == S.pendingRequests[key]
  IN IF skipDup /\ skipConc
       THEN [S EXCEPT !.reqs = Append(@, chReq(key, skipDup, skipConc, "own", 0, FALSE))]
     ELSE IF skipDup
       THEN waitForExecution(S, r, chReq(key, skipDup, skipConc, "", 0, FALSE))
     ELSE IF existing # 0
       THEN IF skipConc
              THEN [S EXCEPT !.reqs = Append(@, chReq(key, skipDup, skipConc,
                                                      "adapter", existing, FALSE))]
              ELSE waitForExecution(S, r, chReq(key, skipDup, skipConc, "", existing, FALSE))
     ELSE LET S1 == [S EXCEPT !.transports = Append(@, [key |-> key, st |-> "inflight"]),
                             !.pendingRequests[key] = t]
          IN IF skipConc
               THEN [S1 EXCEPT !.reqs = Append(@, chReq(key, skipDup, skipConc,
                                                        "adapter", t, FALSE))]
               ELSE waitForExecution(S1, r, chReq(key, skipDup, skipConc, "", t, FALSE))

chIntercept(key, skipDup, skipConc) ==
  /\ Len(ch.reqs) < NumIntercepted
  /\ ch' = requestInterceptor(ch, key, skipDup, skipConc)

\* The code after "await this.waitForExecution()": a request that only skips
\* the duplicate check returns its config; the others add their key to
\* executingRequests and install the adapter.
chContinue(r) ==
  /\ r \in DOMAIN ch.reqs
  /\ ch.reqs[r].pc = "resumed"
  /\ ch' = IF ch.reqs[r].skipDuplicateCheck
             THEN [ch EXCEPT !.reqs[r].pc = "own"]
             ELSE [ch EXCEPT !.reqs[r].pc = "adapter",
                             !.reqs[r].release = TRUE,
                             !.executingRequests = @ \cup {ch.reqs[r].key}]

\* processWaitingQueue(): below the limit, the first resolver is shifted off
\* the queue and called.
processWaitingQueue(S) ==
  IF Len(S.waitingQueue) > 0 /\ Cardinality(S.executingRequests) < S.maxConcurrent
    THEN [S EXCEPT !.waitingQueue = Tail(@),
                   !.reqs[Head(S.waitingQueue)].pc = "resumed"]
    ELSE S

\* axios calls config.adapter: the key is deleted from executingRequests and
\* the waiting queue is processed (when the request went through the gate),
\* and the promise of the request's record is returned.
chAdapter(r) ==
  /\ r \in DOMAIN ch.reqs
  /\ ch.reqs[r].pc = "adapter"
  /\ LET req == ch.reqs[r]
         S1 == IF req.release
                 THEN processWaitingQueue(
                        [ch EXCEPT !.executingRequests = @ \ {req.key}])
                 ELSE ch
         st == ch.transports[req.rec].st
     IN ch' = [S1 EXCEPT !.reqs[r].pc = IF st = "inflight" THEN "awaiting" ELSE st]

chQuiet == \A r \in DOMAIN ch.reqs : ch.reqs[r].pc \notin {"resumed", "adapter"}

\* The transport call t made by createControlledRequest settles: the requests
\* that hold its promise settle with it, and the finally block deletes
\* pendingRequests[key].
chTransportSettles(t, out) ==
  /\ chQuiet
  /\ t \in DOMAIN ch.transports
  /\ ch.transports[t].st = "inflight"
  /\ ch' = [ch EXCEPT
              !.transports[t].st = out,
              !.pendingRequests[ch.transports[t].key] = 0,
              !.reqs = [r \in DOMAIN @ |->
                          IF @[r].pc = "awaiting" /\ @[r].rec = t
                            THEN [@[r] EXCEPT !.pc = out] ELSE @[r]]]

\* The transport call of a request that skipped the duplicate check settles.
chOwnSettles(r, out) ==
  /\ chQuiet
  /\ r \in DOMAIN ch.reqs
  /\ ch.reqs[r].pc = "own"
  /\ ch' = [ch EXCEPT !.reqs[r].pc = out]

\* clearPendingRequests()
clearPendingRequests ==
  /\ \E k \in Keys : ch.pendingRequests[k] # 0
  /\ ch' = [ch EXCEPT !.pendingRequests = [k \in Keys |-> 0]]

\* ConcurrencyHandler.cancelAllRequests()
chCancelAllRequests ==
  /\ ch.reqs # <<>>
  /\ ch' = [ch EXCEPT !.pendingRequests = [k \in Keys |-> 0],
                      !.executingRequests = {},
                      !.waitingQueue = <<>>]

chArrive == \E k \in Keys, skipDup, skipConc \in BOOLEAN : chIntercept(k, skipDup, skipConc)
chStep == \E r \in DOMAIN ch.reqs : chContinue(r) \/ chAdapter(r)
chSettle ==
  \E out \in {"resolved", "rejected"} :
    \/ \E t \in DOMAIN ch.transports : chTransportSettles(t, out)
    \/ \E r \in DOMAIN ch.reqs : chOwnSettles(r, out)

chInFlight(k) ==
  {t \in DOMAIN ch.transports : ch.transports[t].key = k /\ ch.transports[t].st = "inflight"}

(***************************************************************************)
(* HttpClientImpl (src/unnamed/part_017) with CancelManager.requestMap     *)
(* (src/unnamed/part_014:418-510) and the gate above.                      *)
(*                                                                         *)
(* A config is [method, data, cache, retryCount]: url and params are the   *)
(* same for all requests, cache stands for config.cache.enabled.  A request*)
(* is at pc "cached" (answered from the cache), "gated" (its closure is in *)
(* requestQueue), "inflight" (instance.request is outstanding), "backoff"  *)
(* (handleRetry waits for its timer), "resolved" or "rejected".  The fields*)
(* replaced and inflightAtIssue record what request() found when it was    *)
(* called; sent counts the transport calls that reached the adapter, last  *)
(* is what the latest of them ended in.                                    *)
(***************************************************************************)
HcMethods == {"get", "post"}
Bodies == 1..NumBodies

hcConfigs(methods, datas, caches, retries) ==
  [method : methods, data : datas, cache : caches, retryCount : retries]

\* `${method}-${url}-${JSON.stringify(params)}-${JSON.stringify(data)}`
generateRequestKey(cfg) == <<cfg.method, cfg.data>>

\* CacheManager.generateCacheKey for the configs of a client: url "/a", no
\* params, and the body {a: data}.
generateCacheKey(cfg) ==
  CacheManager_generateCacheKey(
    [method |-> cfg.method, url |-> <<"/", "a">>, params |-> <<>>,
     data |-> <<<<[k |-> "a", v |-> Atom(cfg.data)]>>>>])

HcRequestKeys == {generateRequestKey(cfg) : cfg \in hcConfigs(HcMethods, Bodies, {FALSE}, {0})}

hcInit ==
  hc = [requestMap |-> [k \in HcRequestKeys |-> 0],
        cache      |-> {},
        reqs       |-> <<>>]

\* CancelManager.cancelRequest(requestKey)
cmCancelRequest(S, k) ==
  IF S.requestMap[k] # 0
    THEN [S EXCEPT !.reqs[S.requestMap[k]].token = "cancelled",
                   !.requestMap[k] = 0]
    ELSE S

\* createCancelToken without the cancellation of the recorded request
createCancelTokenKeepsEarlier(S, cfg, r) ==
  [S EXCEPT !.requestMap[generateRequestKey(cfg)] = r]

\* CancelManager.createCancelToken(config), called for request r: the request
\* recorded under the key is cancelled, then r is recorded.
createCancelToken(S, cfg, r) ==
  LET k == generateRequestKey(cfg)
  IN [cmCancelRequest(S, k) EXCEPT !.requestMap[k] = r]

\* CancelManager.removeRequest(requestKey)
removeRequest(S, k) == [S EXCEPT !.requestMap[k] = 0]

\* requestFn(): instance.request(requestConfig).  With a cancelled token axios
\* rejects before it calls the adapter.
hcRequestFn(S, r) ==
  [S EXCEPT !.reqs[r].pc = "inflight",
            !.reqs[r].sent = IF S.reqs[r].token = "live" THEN @ + 1 ELSE @]

hcInFlight(S, k) ==
  {a \in DOMAIN S.reqs : /\ generateRequestKey(S.reqs[a].cfg) = k
                         /\ S.reqs[a].pc = "inflight"
                         /\ S.reqs[a].token = "live"}

hcReq(cfg, call, pc, S) ==
  [cfg |-> cfg, call |-> call, token |-> "live", pc |-> pc, sent |-> 0,
   retryCount |-> 0, last |-> "none",
   replaced |-> S.requestMap[generateRequestKey(cfg)],
   inflightAtIssue |-> hcInFlight(S, generateRequestKey(cfg))]

\* HttpClientImpl.request(config), up to its first suspension.
hcRequest(cfg) ==
  /\ Len(hc.reqs) < NumClientRequests
  /\ LET r == Len(hc.reqs) + 1
     IN IF generateCacheKey(cfg) \in hc.cache
          THEN /\ hc' = [hc EXCEPT !.reqs = Append(@, hcReq(cfg, 0, "cached", hc))]
               /\ UNCHANGED cmVars
          ELSE \E c \in Calls :
                 /\ executeWithConcurrency(c)
                 /\ LET S1 == [hc EXCEPT !.reqs = Append(@, hcReq(cfg, c, "gated", hc))]
                        S2 == createCancelToken(S1, cfg, r)
                    IN hc' = IF currentRequests >= maxConcurrentRequests
                               THEN S2 ELSE hcRequestFn(S2, r)

\* What the response interceptor rejects with (errorHandler "auto"): a plain
\* object, which has neither config nor response, neither code nor message,
\* and is no AxiosError.  errorCode is the status when the server answered
\* and absent ("undefined") for a cancellation or a network error, and
\* originalError is set with it.
hcRejection(res) ==
  [config |-> FALSE, response |-> FALSE, status |-> 0,
   originalError |-> res \in {"http404", "http500"},
   errorMessage |-> IF res = "cancel" THEN "cancelled"
                    ELSE IF res = "network" THEN "network" ELSE "status",
   errorCode |-> CASE res = "http404" -> "404"
                   [] res = "http500" -> "500"
                   [] OTHER -> "undefined",
   isAxiosError |-> FALSE, code |-> "", message |-> ""]

\* CancelManager.cancelAllRequests(): every recorded source is cancelled and
\* the map is cleared.
cmCancelAllRequests(S) ==
  [S EXCEPT !.reqs = [r \in DOMAIN @ |->
                        IF \E k \in HcRequestKeys : S.requestMap[k] = r
                          THEN [@[r] EXCEPT !.token = "cancelled"] ELSE @[r]],
            !.requestMap = [k \in HcRequestKeys |-> 0]]

\* HttpClientImpl.cancelRequest(requestKey)
hcCancelRequest(k) ==
  /\ hc.requestMap[k] # 0
  /\ hc' = cmCancelRequest(hc, k)
  /\ UNCHANGED cmVars

\* HttpClientImpl.cancelAllRequests()
hcCancelAllRequests ==
  /\ \E k \in HcRequestKeys : hc.requestMap[k] # 0
  /\ hc' = cmCancelAllRequests(hc)
  /\ UNCHANGED cmVars

hcCancel == \E k \in HcRequestKeys : hcCancelRequest(k)

(***************************************************************************)
(* HttpClientImpl: the auth token and the request interceptor              *)
(* (src/unnamed/part_017:25, 45-69, 289-294).  A token is <<>> for null    *)
(* and <<t>> for the string t; a header is <<>> when it is absent.         *)
(***************************************************************************)
AuthTokens == {<<>>, <<"">>, <<"t1">>, <<"t2">>}

\* new HttpClientImpl()
auInit == au = [authToken |-> <<>>, sent |-> <<>>]

\* setAuthToken(token)
setAuthToken(token) ==
  au' = [au EXCEPT !.authToken = token]

\* The request interceptor that adds the header for every request
authorizationOfAny(requiresAuth, authToken) ==
  IF authToken # <<>> /\ authToken[1] # ""
    THEN <<<<"Bearer", authToken[1]>>>>
    ELSE <<>>

\* The request interceptor: customConfig.requiresAuth && this.authToken, the
\* Authorization header it leaves on the config.
authorization(requiresAuth, authToken) ==
  IF requiresAuth /\ authToken # <<>> /\ authToken[1] # ""
    THEN <<<<"Bearer", authToken[1]>>>>
    ELSE <<>>

\* A request is sent: the interceptor runs on its config, which is recorded
\* with the token that the latest setAuthToken gave.
auSend(requiresAuth) ==
  /\ Len(au.sent) < NumSends
  /\ au' = [au EXCEPT !.sent = Append(@, [requiresAuth |-> requiresAuth,
                                          token |-> au.authToken,
                                          header |-> authorization(requiresAuth,
                                                                   au.authToken)])]

(***************************************************************************)
(* ErrorHandler (src/src/core/http/errorHandler.ts).  An error is a record *)
(* of the properties normalizeError reads: errorCode and errorMessage      *)
(* ("undefined" when absent), isAxiosError, response (present or not) with *)
(* status, code and message ("" when absent).                              *)
(***************************************************************************)
\* error.message?.includes("cancel")
ehIncludesCancel(message) == message \in {"canceled", "Request canceled"}

\* ErrorHandler.normalizeError(error): the errorCode of the result.
ehNormalizeError(error) ==
  IF error.errorCode # "undefined" /\ error.errorMessage # "undefined"
    THEN error.errorCode
  ELSE IF error.isAxiosError
    THEN IF ~error.response
           THEN IF error.code = "ECONNABORTED" THEN "TIMEOUT_ERROR"
                ELSE IF ehIncludesCancel(error.message) THEN "CANCEL_ERROR"
                ELSE "NETWORK_ERROR"
           ELSE ToString(error.status)
  ELSE IF error.code # "" \/ error.message # ""
    THEN IF error.code # "" THEN error.code ELSE "BUSINESS_ERROR"
  ELSE "UNKNOWN_ERROR"

\* The errors getErrorType is called with: axios errors and other objects,
\* with a response (and its status) or without, with the code and message
\* properties normalizeError reads.
EhStatuses == {400, 404, 499, 500, 503}
EhCodes == {"", "ECONNABORTED", "ERR_NETWORK", "ERR_CANCELED"}
EhMessages == {"", "canceled", "Network Error"}
EhErrors ==
  [isAxiosError : BOOLEAN, response : BOOLEAN, status : EhStatuses,
   code : EhCodes, message : EhMessages]

\* ErrorHandler.getErrorType(error): the type returned, or "TypeError" when
\* error.response.status is read of an error without a response.
getErrorType(error) ==
  IF error.isAxiosError
    THEN IF ~error.response
           THEN IF error.code = "ECONNABORTED" THEN "TIMEOUT_ERROR"
                ELSE IF ehIncludesCancel(error.message) THEN "CANCEL_ERROR"
                ELSE "CANCEL_ERROR"
           ELSE "NETWORK_ERROR"
  ELSE IF ~error.response THEN "TypeError"
  ELSE IF error.status >= 500 THEN "SERVER_ERROR"
  ELSE IF error.status >= 400 /\ error.status < 500 THEN "CLIENT_ERROR"
  ELSE IF error.code # "" \/ error.message # "" THEN "BUSINESS_ERROR"
  ELSE "UNKNOWN_ERROR"

ehIdle ==
  eh = [error |-> [isAxiosError |-> FALSE, response |-> TRUE, status |-> 500,
                   code |-> "", message |-> ""],
        outcome |-> <<>>]

ehInit == \E error \in EhErrors : eh = [error |-> error, outcome |-> <<>>]

ehGetErrorType ==
  /\ eh.outcome = <<>>
  /\ eh' = [eh EXCEPT !.outcome = <<getErrorType(eh.error)>>]

\* handleRetry: !error.config || error.response?.status >= 500 || !error.response
hcShouldRetry(error) ==
  \/ ~error.config
  \/ (error.response /\ error.status >= 500)
  \/ ~error.response

\* The call of the gate that the settlement of call c starts, or 0.
hcStartedBy(c) ==
  IF cmVia[c] = "direct"
    THEN processNextRequest(currentRequests - 1, requestQueue, maxConcurrentRequests)
    ELSE 0

\* The request whose closure is call c of the gate.
hcOfCall(S, c) == CHOOSE q \in DOMAIN S.reqs : S.reqs[q].call = c

\* fn() of request r settles with out: the gate runs its settlement, the
\* closure it takes off the queue starts its request function.
hcFnSettles(S, r, out) ==
  LET c == S.reqs[r].call
      nxt == hcStartedBy(c)
      S1 == [S EXCEPT !.reqs[r].pc = out]
  IN /\ fnSettles(c, out)
     /\ hc' = IF nxt # 0 THEN hcRequestFn(S1, hcOfCall(S1, nxt)) ELSE S1

\* The transport call of request r ends in res (a cancelled token makes it end
\* in "cancel"): the response interceptor removes the record of the key when
\* the response or the error carries the config, handleRetry decides on
\* another try, and request() stores a result in the cache.
hcTransportSettles(r, res) ==
  /\ r \in DOMAIN hc.reqs
  /\ hc.reqs[r].pc = "inflight"
  /\ (hc.reqs[r].token = "cancelled") <=> (res = "cancel")
  /\ LET req == hc.reqs[r]
         S0 == [hc EXCEPT !.reqs[r].last = res]
         S1 == IF res # "cancel" THEN removeRequest(S0, generateRequestKey(req.cfg)) ELSE S0
     IN IF res = "ok"
          THEN hcFnSettles([S1 EXCEPT !.cache = IF req.cfg.cache
                                                  THEN @ \cup {generateCacheKey(req.cfg)}
                                                  ELSE @],
                           r, "resolved")
        ELSE IF ~hcShouldRetry(hcRejection(res)) \/ req.retryCount >= req.cfg.retryCount
          THEN hcFnSettles(S1, r, "rejected")
        ELSE /\ hc' = [S1 EXCEPT !.reqs[r].pc = "backoff",
                                 !.reqs[r].retryCount = @ + 1]
             /\ UNCHANGED cmVars

\* The timer of handleRetry fires: requestFn() is called again.
hcRetryTimer(r) ==
  /\ r \in DOMAIN hc.reqs
  /\ hc.reqs[r].pc = "backoff"
  /\ hc' = hcRequestFn(hc, r)
  /\ UNCHANGED cmVars

hcArrive(cfgs) == \E cfg \in cfgs : hcRequest(cfg)
hcTransport(results) ==
  \E r \in DOMAIN hc.reqs, res \in results \cup {"cancel"} : hcTransportSettles(r, res)
hcRetry == \E r \in DOMAIN hc.reqs : hcRetryTimer(r)

(***************************************************************************)
(* services Request (src/unnamed/part_026).                                *)
(*                                                                         *)
(* A call of request() has options [retryCount, delay, showLoading] (delay *)
(* stands for retryDelay > 0), the index attempt of its loop, sent, the    *)
(* number of calls of instance.request, last, what the latest of them      *)
(* ended in, and pc: "inflight", "delay", "resolved" or "rejected".        *)
(* token tells whether localStorage or sessionStorage holds a token, and   *)
(* location is window.location.pathname.  "business401" is a response      *)
(* whose envelope has success false and code 401, "http401" a response     *)
(* with status 401.                                                        *)
(***************************************************************************)
SvResults == {"ok", "business", "http404", "http500", "network", "timeout"}

svInit == sv = [loadingCount |-> 0, reqs |-> <<>>, token |-> TRUE, location |-> "/app"]

\* redirectToLogin(): the token is removed from both storages and the window
\* goes to /login.
redirectToLogin(S) == [S EXCEPT !.token = FALSE, !.location = "/login"]

\* handleBusinessError(error)
handleBusinessError(S, error) ==
  IF error.code = "401" THEN redirectToLogin(S) ELSE S

\* handleNetworkError(error) logs the error.
handleNetworkError(S, error) == S

svOptions(retries, delays) ==
  [retryCount : retries, delay : delays, showLoading : BOOLEAN]

\* What the response interceptor rejects with: a RequestError {code, message,
\* data}.  It has no response property; its code is data.code, the status or
\* -1, never the code of the axios error.
svRequestError(res) ==
  [code |-> CASE res = "business" -> "10001"
              [] res = "business401" -> "401"
              [] res = "http401"  -> "401"
              [] res = "http404"  -> "404"
              [] res = "http500"  -> "500"
              [] OTHER            -> "-1",
   hasResponse |-> FALSE, status |-> 0]

\* Request.shouldRetry(error)
svShouldRetry(error) ==
  \/ ~error.hasResponse
  \/ error.code = "ECONNABORTED"
  \/ (error.hasResponse /\ error.status >= 500)

\* Request.request(config, options), up to its first await.
svRequest(opts) ==
  /\ Len(sv.reqs) < NumServiceRequests
  /\ sv' = [sv EXCEPT
              !.loadingCount = IF opts.showLoading THEN @ + 1 ELSE @,
              !.reqs = Append(@, [opts |-> opts, attempt |-> 0, sent |-> 1,
                                  last |-> "none", pc |-> "inflight"])]

\* hideLoading()
hideLoading(n) == IF n - 1 <= 0 THEN 0 ELSE n - 1

\* request() settles: the finally block hides the loading indicator.
svFinally(S, r, out) ==
  [S EXCEPT !.reqs[r].pc = out,
            !.loadingCount = IF S.reqs[r].opts.showLoading THEN hideLoading(@) ELSE @]

\* instance.request of call r ends in res.
svTransportSettles(r, res) ==
  /\ r \in DOMAIN sv.reqs
  /\ sv.reqs[r].pc = "inflight"
  /\ LET req == sv.reqs[r]
         S0 == [sv EXCEPT !.reqs[r].last = res]
         S1 == IF res = "ok" THEN S0
               ELSE IF res \in {"business", "business401"}
                 THEN handleBusinessError(S0, svRequestError(res))
               ELSE handleNetworkError(S0, svRequestError(res))
     IN sv' = IF res = "ok"
                THEN svFinally(S1, r, "resolved")
              ELSE IF req.attempt = req.opts.retryCount
                        \/ ~svShouldRetry(svRequestError(res))
                THEN svFinally(S1, r, "rejected")
              ELSE IF req.opts.delay
                THEN [S1 EXCEPT !.reqs[r].pc = "delay"]
              ELSE [S1 EXCEPT !.reqs[r].attempt = @ + 1, !.reqs[r].sent = @ + 1]

\* The retry delay of call r is over: the next iteration calls
\* instance.request.
svDelayOver(r) ==
  /\ r \in DOMAIN sv.reqs
  /\ sv.reqs[r].pc = "delay"
  /\ sv' = [sv EXCEPT !.reqs[r].pc = "inflight",
                      !.reqs[r].attempt = @ + 1, !.reqs[r].sent = @ + 1]

svArrive == \E opts \in svOptions(0..MaxRetries, BOOLEAN) : svRequest(opts)
svTransport == \E r \in DOMAIN sv.reqs, res \in SvResults : svTransportSettles(r, res)
svTransportOf(results) ==
  \E r \in DOMAIN sv.reqs, res \in results : svTransportSettles(r, res)
svDelay == \E r \in DOMAIN sv.reqs : svDelayOver(r)

(***************************************************************************)
(* core/request CacheManager (src/unnamed/part_019).                       *)
(*                                                                         *)
(* rc.cache maps a key to <<>> (no entry) or <<item>> with item = [data,   *)
(* timestamp, expires].  An optional argument is <<>> when it is omitted   *)
(* and <<e>> when it is passed.  rc.lastSet and rc.ret are records of what *)
(* was called, kept for the properties: lastSet[k] is the latest           *)
(* set(k, ...) since k was last deleted or cleared; ret is <<>> or, right  *)
(* after a get, <<[key, result]>>.                                         *)
(***************************************************************************)
CacheKeys == 1..NumCacheKeys
CacheValues == {"v1", "v2"}
ExpireTimes == (-1)..MaxTtl

rcInit(d) ==
  rc = [now |-> 0, defaultExpireTime |-> d,
        cache |-> [k \in CacheKeys |-> <<>>],
        lastSet |-> [k \in CacheKeys |-> <<>>],
        ret |-> <<>>]

\* expireTime || this.defaultExpireTime
rcExpireTimeOr(opt, d) == IF opt # <<>> /\ opt[1] # 0 THEN opt[1] ELSE d

\* cleanup(): every entry with now > expires is deleted.
rcCleanup(cache, now) ==
  [k \in CacheKeys |->
     IF cache[k] # <<>> /\ now > cache[k][1].expires THEN <<>> ELSE cache[k]]

rcSize(cache) == Cardinality({k \in CacheKeys : cache[k] # <<>>})

\* set(key, data, expireTime)
rcSet(k, v, opt) ==
  LET item == [data |-> v, timestamp |-> rc.now,
               expires |-> rc.now + rcExpireTimeOr(opt, rc.defaultExpireTime)]
  IN rc' = [rc EXCEPT
              !.cache = rcCleanup([rc.cache EXCEPT ![k] = <<item>>], rc.now),
              !.lastSet[k] = <<[data |-> v, at |-> rc.now, given |-> opt]>>,
              !.ret = <<>>]

\* get(key) with the expiry test Date.now() >= expires
rcGetExpiresEarly(k) ==
  LET item == rc.cache[k]
      expired == item # <<>> /\ rc.now >= item[1].expires
      result == IF item = <<>> \/ expired THEN "null" ELSE item[1].data
  IN rc' = [rc EXCEPT
              !.cache[k] = IF expired THEN <<>> ELSE @,
              !.ret = <<[key |-> k, result |-> result]>>]

\* get(key): an entry with Date.now() > expires is deleted and null returned.
rcGet(k) ==
  LET item == rc.cache[k]
      expired == item # <<>> /\ rc.now > item[1].expires
      result == IF item = <<>> \/ expired THEN "null" ELSE item[1].data
  IN rc' = [rc EXCEPT
              !.cache[k] = IF expired THEN <<>> ELSE @,
              !.ret = <<[key |-> k, result |-> result]>>]

\* has(key)
rcHas(k) ==
  /\ rc.cache[k] # <<>>
  /\ rc.now > rc.cache[k][1].expires
  /\ rc' = [rc EXCEPT !.cache[k] = <<>>, !.ret = <<>>]

\* delete(key)
rcDelete(k) ==
  /\ rc.cache[k] # <<>> \/ rc.lastSet[k] # <<>>
  /\ rc' = [rc EXCEPT !.cache[k] = <<>>, !.lastSet[k] = <<>>, !.ret = <<>>]

\* clear()
rcClear ==
  /\ \E k \in CacheKeys : rc.cache[k] # <<>> \/ rc.lastSet[k] # <<>>
  /\ rc' = [rc EXCEPT !.cache = [k \in CacheKeys |-> <<>>],
                      !.lastSet = [k \in CacheKeys |-> <<>>],
                      !.ret = <<>>]

\* Time passes.
rcTick ==
  /\ rc.now < MaxTime
  /\ rc' = [rc EXCEPT !.now = @ + 1, !.ret = <<>>]

rcSets(opts) == \E k \in CacheKeys, v \in CacheValues, opt \in opts : rcSet(k, v, opt)
rcGets == \E k \in CacheKeys : rcGet(k)
rcRemoves == \E k \in CacheKeys : rcHas(k) \/ rcDelete(k)

(***************************************************************************)
(* http CacheManager (src/unnamed/part_014:96-360).                        *)
(*                                                                         *)
(* A config is [method, data, cache]: cache is <<>> when config.cache is   *)
(* absent and <<[enabled, expireTime]>> otherwise, expireTime being <<>>   *)
(* or <<e>>.  cc.cache is the Map as the sequence of its entries [key,     *)
(* item] in insertion order, item = [data, timestamp, expireTime].         *)
(* stats.hitRate is a function of hits and misses and is not stored.       *)
(* lookups counts the calls of get made so far.                            *)
(***************************************************************************)
ccCacheOptions(expireTimes) == {<<>>} \cup {<<o>> : o \in [enabled : BOOLEAN, expireTime : expireTimes]}

ccConfigs(methods, datas, expireTimes) ==
  [method : methods, data : datas, cache : ccCacheOptions(expireTimes)]

\* The capacity of a CacheManager constructed without one
DefaultCapacity == 100

\* config?.capacity || 100
ccCapacityOr(cap) == IF cap # 0 THEN cap ELSE DefaultCapacity

\* new CacheManager({expireTime: d, capacity: cap}).  asked is the capacity
\* the caller last gave, to the constructor or to setCapacity.
ccInit(d, cap) ==
  cc = [now |-> 0, defaultExpireTime |-> d, capacity |-> ccCapacityOr(cap),
        asked |-> cap, cache |-> <<>>,
        stats |-> [size |-> 0, hits |-> 0, misses |-> 0],
        lookups |-> 0, ret |-> <<>>]

\* config.cache?.enabled
ccEnabled(cfg) == cfg.cache # <<>> /\ cfg.cache[1].enabled

\* config.cache?.expireTime || this.defaultExpireTime
ccExpireTimeOr(cfg, d) ==
  IF cfg.cache # <<>> /\ cfg.cache[1].expireTime # <<>> /\ cfg.cache[1].expireTime[1] # 0
    THEN cfg.cache[1].expireTime[1]
    ELSE d

\* The position of key in the Map, or 0.
ccIndex(cache, key) ==
  IF \E i \in DOMAIN cache : cache[i].key = key
    THEN CHOOSE i \in DOMAIN cache : cache[i].key = key
    ELSE 0

ccRemoveAt(cache, i) ==
  [j \in 1..(Len(cache) - 1) |-> IF j < i THEN cache[j] ELSE cache[j + 1]]

\* getOldestKey(): the position of the first entry with the smallest
\* timestamp, 0 for an empty Map.
getOldestKey(cache) ==
  IF cache = <<>> THEN 0
  ELSE CHOOSE i \in DOMAIN cache :
         \A j \in DOMAIN cache :
           \/ cache[i].item.timestamp < cache[j].item.timestamp
           \/ (cache[i].item.timestamp = cache[j].item.timestamp /\ i <= j)

\* enforceCapacity(): at or above the capacity the oldest entry is deleted.
enforceCapacity(cache, cap) ==
  IF Len(cache) >= cap /\ getOldestKey(cache) # 0
    THEN ccRemoveAt(cache, getOldestKey(cache))
    ELSE cache

\* Map.set(key, item)
ccPut(cache, key, item) ==
  IF ccIndex(cache, key) # 0
    THEN [cache EXCEPT ![ccIndex(cache, key)].item = item]
    ELSE Append(cache, [key |-> key, item |-> item])

\* set(config, data)
ccSet(cfg, v) ==
  IF ~ccEnabled(cfg)
    THEN cc' = [cc EXCEPT !.ret = <<>>]
    ELSE LET item == [data |-> v, timestamp |-> cc.now,
                      expireTime |-> ccExpireTimeOr(cfg, cc.defaultExpireTime)]
             cache == ccPut(enforceCapacity(cc.cache, cc.capacity),
                            generateCacheKey(cfg), item)
         IN cc' = [cc EXCEPT !.cache = cache, !.stats.size = Len(cache), !.ret = <<>>]

\* get(config): a miss when there is no entry; an entry with
\* now - timestamp > (config.cache?.expireTime || defaultExpireTime) is deleted
\* and counts as a miss; otherwise a hit.
ccGet(cfg) ==
  /\ cc.lookups < NumLookups
  /\ LET key == generateCacheKey(cfg)
         i == ccIndex(cc.cache, key)
     IN IF i = 0
          THEN cc' = [cc EXCEPT !.stats.misses = @ + 1, !.lookups = @ + 1,
                                !.ret = <<[key |-> key, result |-> "null", found |-> <<>>]>>]
        ELSE IF cc.now - cc.cache[i].item.timestamp > ccExpireTimeOr(cfg, cc.defaultExpireTime)
          THEN cc' = [cc EXCEPT !.cache = ccRemoveAt(@, i),
                                !.stats.size = Len(cc.cache) - 1,
                                !.stats.misses = @ + 1, !.lookups = @ + 1,
                                !.ret = <<[key |-> key, result |-> "null",
                                           found |-> <<cc.cache[i].item>>]>>]
        ELSE cc' = [cc EXCEPT !.stats.hits = @ + 1, !.lookups = @ + 1,
                              !.ret = <<[key |-> key, result |-> cc.cache[i].item.data,
                                         found |-> <<cc.cache[i].item>>]>>]

\* Time passes.
ccTick ==
  /\ cc.now < MaxTime
  /\ cc' = [cc EXCEPT !.now = @ + 1, !.ret = <<>>]

\* setCapacity(capacity): the new capacity is applied by one enforceCapacity()
\* call; stats.size is not refreshed.
ccSetCapacity(cap) ==
  cc' = [cc EXCEPT !.capacity = cap, !.asked = cap,
                   !.cache = enforceCapacity(cc.cache, cap), !.ret = <<>>]

\* delete(config)
ccDelete(cfg) ==
  LET i == ccIndex(cc.cache, generateCacheKey(cfg))
  IN IF i = 0
       THEN cc' = [cc EXCEPT !.ret = <<>>]
       ELSE cc' = [cc EXCEPT !.cache = ccRemoveAt(@, i),
                             !.stats.size = Len(cc.cache) - 1, !.ret = <<>>]

\* deleteByUrl(url): every entry whose key includes url is deleted.
ccDeleteByUrl(url) ==
  LET cache == SelectSeq(cc.cache, LAMBDA e : ~includes(e.key, url))
  IN cc' = [cc EXCEPT !.cache = cache, !.stats.size = Len(cache), !.ret = <<>>]

\* clear() that empties the entries and leaves the counters as they are
ccClearKeepsCounters ==
  cc' = [cc EXCEPT !.cache = <<>>, !.stats.size = 0, !.ret = <<>>]

\* clear(): the entries go, and hits and misses are set to 0 with them.
ccClear ==
  cc' = [cc EXCEPT !.cache = <<>>,
                   !.stats = [size |-> 0, hits |-> 0, misses |-> 0],
                   !.ret = <<>>]

ccSets(cfgs) == \E cfg \in cfgs, v \in CacheValues : ccSet(cfg, v)
ccGets(cfgs) == \E cfg \in cfgs : ccGet(cfg)

(***************************************************************************)
(* AxiosHttpClient (src/src/core/http/request.ts) with its CacheManager    *)
(* (cc) and its CancelManager (the gate).                                  *)
(*                                                                         *)
(* What the transport can end in: "ok" is status 200 with an envelope that *)
(* reports success, "business" status 200 with an envelope whose code      *)
(* reports a failure, "http201" another 2xx status, "http500" a status     *)
(* outside validateStatus, "network" no response.  The data cached for a   *)
(* response is named after what the transport ended in.                    *)
(***************************************************************************)
AxResults == {"ok", "business", "http201", "http500", "network"}

axInit ==
  ax = [cfg  |-> [c \in Calls |-> <<>>],
        from |-> [c \in Calls |-> "none"],
        res  |-> [c \in Calls |-> "none"]]

\* request(config): with cache.enabled the cache is read and a cached value is
\* returned at once; otherwise the transport call goes through
\* executeWithConcurrency.
axRequest(c, cfg) ==
  /\ cmNextArrival(c)
  /\ IF ccEnabled(cfg)
       THEN /\ ccGet(cfg)
            /\ IF cc'.ret[1].result # "null"
                 THEN /\ cmPhase' = [cmPhase EXCEPT ![c] = "resolved"]
                      /\ UNCHANGED <<maxConcurrentRequests, currentRequests,
                                     requestQueue, cmVia>>
                      /\ ax' = [ax EXCEPT !.cfg[c] = <<cfg>>, !.from[c] = "cache",
                                          !.res[c] = cc'.ret[1].result]
                 ELSE /\ executeWithConcurrency(c)
                      /\ ax' = [ax EXCEPT !.cfg[c] = <<cfg>>, !.from[c] = "transport"]
       ELSE /\ executeWithConcurrency(c)
            /\ ax' = [ax EXCEPT !.cfg[c] = <<cfg>>, !.from[c] = "transport"]
            /\ UNCHANGED cc

\* The transport call of c ends with res and the response interceptor runs: a
\* response with status 200 is cached when cache.enabled and its data
\* resolves the call; any other response and any error reject it.
axTransportSettles(c, res) ==
  /\ cmPhase[c] = "running"
  /\ ax' = [ax EXCEPT !.res[c] = res]
  /\ IF res \in {"ok", "business"}
       THEN /\ IF ccEnabled(ax.cfg[c][1])
                 THEN ccSet(ax.cfg[c][1], res)
                 ELSE UNCHANGED cc
            /\ fnSettles(c, "resolved")
       ELSE /\ UNCHANGED cc
            /\ fnSettles(c, "rejected")

axArrive(cfgs) == \E c \in 1..NumAxCalls, cfg \in cfgs : axRequest(c, cfg)
axTransport == \E c \in Calls, res \in AxResults : axTransportSettles(c, res)

(***************************************************************************)
(* Specifications.                                                         *)
(***************************************************************************)
\* A component that a specification leaves alone is constructed with its
\* default limit and never called.
cmIdle == cmInit(DefaultMaxConcurrent)
rmIdle == rmInit(DefaultMaxConcurrent)
chIdle == chInit(DefaultMaxConcurrent)

\* new CacheManager(): the default expire time, in units of the model
rcIdle == rcInit(MaxTtl)

\* new CacheManager() of core/http, in units of the model
ccIdle == ccInit(MaxTtl, MaxCapacity)

\* The components that have no part in the component specifications below.
extraIdle == ehIdle /\ auInit /\ rdIdle
moreIdle == kgIdle /\ axInit /\ extraIdle
moreVars == <<kgVars, axVars, extraVars>>
restIdle == rsIdle /\ svInit /\ rcIdle /\ ccIdle /\ moreIdle
restVars == <<rsVars, svVars, rcVars, ccVars, moreVars>>

GateInit == (\E l \in Limits : cmInit(l)) /\ rmIdle /\ chIdle /\ hcInit /\ restIdle
RMInit == (\E l \in Limits : rmInit(l)) /\ cmIdle /\ chIdle /\ hcInit /\ restIdle
CHInit == (\E l \in Limits : chInit(l)) /\ cmIdle /\ rmIdle /\ hcInit /\ restIdle
HCInit == (\E l \in Limits : cmInit(l)) /\ hcInit /\ rmIdle /\ chIdle /\ restIdle

\* The variables of the other components.
cmOthers == <<rmVars, chVars, hcVars, restVars>>
rmOthers == <<cmVars, chVars, hcVars, restVars>>
chOthers == <<cmVars, rmVars, hcVars, restVars>>
hcOthers == <<rmVars, chVars, restVars>>

\* CancelManager gate: arrivals and completions of gated calls, in any
\* interleaving.
GateNext == (cmArrive \/ cmSettle) /\ UNCHANGED cmOthers
SpecGate == GateInit /\ [][GateNext]_vars

\* The same, where every started fn() eventually settles.  Nothing is assumed
\* about arrivals.
SpecGateFair ==
  /\ GateInit
  /\ [][GateNext]_vars
  /\ \A c \in Calls :
       WF_vars((\E out \in {"resolved", "rejected"} : fnSettles(c, out))
               /\ UNCHANGED cmOthers)

\* RequestManager without retries and without cancellation: requests arrive,
\* transport calls settle.
rmPlainConfigs == rmConfigs(Requests, {<<FALSE>>, <<TRUE>>}, {0})
rmPlainResults == {"ok", "http404"}

RMNext ==
  /\ \/ rmArrive(rmPlainConfigs)
     \/ rmTransport(rmPlainResults)
     \/ rmWrapper
  /\ UNCHANGED rmOthers
SpecRM == RMInit /\ [][RMNext]_vars

\* The same, where every transport call settles and scheduled continuations run.
SpecRMFair ==
  /\ RMInit
  /\ [][RMNext]_vars
  /\ WF_vars(rmTransport(rmPlainResults) /\ UNCHANGED rmOthers)
  /\ WF_vars(rmWrapper /\ UNCHANGED rmOthers)

\* RequestManager with cancelRequest and cancelAllRequests.
RMCancelNext ==
  /\ \/ rmArrive(rmPlainConfigs)
     \/ rmTransport(rmPlainResults \cup {"cancel"})
     \/ rmWrapper
     \/ rmCancel
     \/ rmCancelAll
  /\ UNCHANGED rmOthers
SpecRMCancel == RMInit /\ [][RMCancelNext]_vars

\* RequestManager with retries: one request, every maxRetries, every sequence
\* of transport results.
rmRetryConfigs == rmConfigs({1}, {<<FALSE>>}, -1..MaxRetries)

RMRetryNext ==
  /\ \/ rmArrive(rmRetryConfigs)
     \/ rmTransport(TransportResults \ {"cancel"})
     \/ rmRetry
  /\ UNCHANGED rmOthers
SpecRMRetry == RMInit /\ [][RMRetryNext]_vars

\* ConcurrencyHandler: requests enter the interceptor, continuations run,
\* transport calls settle.
CHNext ==
  /\ \/ chArrive
     \/ chStep
     \/ chSettle
  /\ UNCHANGED chOthers
SpecCH == CHInit /\ [][CHNext]_vars

\* The same with clearPendingRequests and cancelAllRequests.
CHAdminNext ==
  /\ \/ chArrive
     \/ chStep
     \/ chSettle
     \/ clearPendingRequests
     \/ chCancelAllRequests
  /\ UNCHANGED chOthers
SpecCHAdmin == CHInit /\ [][CHAdminNext]_vars

\* HttpClientImpl: GET requests with and without caching and with at most one
\* retry; a transport call succeeds or fails with status 500.
hcGetConfigs == hcConfigs({"get"}, Bodies, BOOLEAN, {0, 1})
hcPlainResults == {"ok", "http500"}
HCNext ==
  /\ \/ hcArrive(hcGetConfigs)
     \/ hcTransport(hcPlainResults)
     \/ hcRetry
  /\ UNCHANGED hcOthers
SpecHC == HCInit /\ [][HCNext]_vars

\* HttpClientImpl: a transport call succeeds or fails with status 404.
hcNotFoundResults == {"ok", "http404"}
HCNotFoundNext ==
  /\ \/ hcArrive(hcGetConfigs)
     \/ hcTransport(hcNotFoundResults)
     \/ hcRetry
  /\ UNCHANGED hcOthers
SpecHCNotFound == HCInit /\ [][HCNotFoundNext]_vars

\* RetryStrategy.shouldRetry applied to one error, retry count and limit.
RSInit == rsInit /\ cmIdle /\ rmIdle /\ chIdle /\ hcInit /\ svInit /\ rcIdle /\ ccIdle /\ moreIdle
RSNext == rsShouldRetry /\ UNCHANGED <<cmVars, rmVars, chVars, hcVars, svVars, rcVars, ccVars, moreVars>>
SpecRS == RSInit /\ [][RSNext]_vars

\* services Request: calls of request(), transport results, retry delays.
SVInit == svInit /\ cmIdle /\ rmIdle /\ chIdle /\ hcInit /\ rsIdle /\ rcIdle /\ ccIdle /\ moreIdle
SVNext ==
  /\ \/ svArrive
     \/ svTransport
     \/ svDelay
  /\ UNCHANGED <<cmVars, rmVars, chVars, hcVars, rsVars, rcVars, ccVars, moreVars>>
SpecSV == SVInit /\ [][SVNext]_vars

\* HttpClientImpl with cancelRequest and cancelAllRequests.
HCCancelNext ==
  /\ \/ hcArrive(hcGetConfigs)
     \/ hcTransport(hcPlainResults)
     \/ hcRetry
     \/ hcCancel
     \/ hcCancelAllRequests
  /\ UNCHANGED hcOthers
SpecHCCancel == HCInit /\ [][HCCancelNext]_vars

\* core/request CacheManager: set with an expire time that is omitted or
\* passed (negative, zero or positive), get, has, delete, clear, and the clock.
rcAllExpireTimes == {<<>>} \cup {<<e>> : e \in ExpireTimes}
RCInit ==
  /\ \E d \in 1..MaxTtl : rcInit(d)
  /\ cmIdle /\ rmIdle /\ chIdle /\ hcInit /\ rsIdle /\ svInit /\ ccIdle /\ moreIdle
RCNext ==
  /\ \/ rcSets(rcAllExpireTimes)
     \/ rcGets
     \/ rcRemoves
     \/ rcClear
     \/ rcTick
  /\ UNCHANGED <<cmVars, rmVars, chVars, hcVars, rsVars, svVars, ccVars, moreVars>>
SpecRC == RCInit /\ [][RCNext]_vars

\* http CacheManager: set and get with configs for a GET and a POST, with and
\* without config.cache, and the clock.
ccPlainConfigs == ccConfigs({"get", "post"}, {1}, {<<>>} \cup {<<e>> : e \in 1..MaxTtl})
CCInit ==
  /\ \E d \in 1..MaxTtl, cap \in 1..MaxCapacity : ccInit(d, cap)
  /\ cmIdle /\ rmIdle /\ chIdle /\ hcInit /\ rsIdle /\ svInit /\ rcIdle /\ moreIdle
CCNext ==
  /\ \/ ccSets(ccPlainConfigs)
     \/ ccGets(ccPlainConfigs)
     \/ ccTick
  /\ UNCHANGED <<cmVars, rmVars, chVars, hcVars, rsVars, svVars, rcVars, moreVars>>
SpecCC == CCInit /\ [][CCNext]_vars

\* http CacheManager under its whole interface: constructed with any capacity
\* option, then set, get, delete, deleteByUrl, clear and setCapacity.
ccAdminConfigs == ccConfigs({"get", "post"}, {1}, {<<>>})
CCAdminInit ==
  /\ \E d \in 1..MaxTtl, cap \in 0..MaxCapacity : ccInit(d, cap)
  /\ cmIdle /\ rmIdle /\ chIdle /\ hcInit /\ rsIdle /\ svInit /\ rcIdle /\ moreIdle
CCAdminNext ==
  /\ \/ ccSets(ccAdminConfigs)
     \/ ccGets(ccAdminConfigs)
     \/ \E cfg \in ccAdminConfigs : ccDelete(cfg)
     \/ \E url \in KeyUrls : ccDeleteByUrl(url)
     \/ ccClear
     \/ \E cap \in 0..MaxCapacity : ccSetCapacity(cap)
  /\ UNCHANGED <<cmVars, rmVars, chVars, hcVars, rsVars, svVars, rcVars, moreVars>>
SpecCCAdmin == CCAdminInit /\ [][CCAdminNext]_vars

\* The key functions applied to two configs.
KeyInit ==
  /\ kgInit /\ axInit /\ extraIdle
  /\ cmIdle /\ rmIdle /\ chIdle /\ hcInit /\ rsIdle /\ svInit /\ rcIdle /\ ccIdle
KeyNext ==
  /\ kgGenerate
  /\ UNCHANGED <<cmVars, rmVars, chVars, hcVars, rsVars, svVars, rcVars, ccVars, axVars, extraVars>>
SpecKey == KeyInit /\ [][KeyNext]_vars

\* AxiosHttpClient: GET requests to one url with and without cache.enabled,
\* behind a gate with limit l.
axConfigs == ccConfigs({"get"}, {1}, {<<>>})
AXInit ==
  /\ \E l \in Limits : cmInit(l)
  /\ axInit /\ ccIdle /\ kgIdle /\ extraIdle
  /\ rmIdle /\ chIdle /\ hcInit /\ rsIdle /\ svInit /\ rcIdle
AXNext ==
  /\ \/ axArrive(axConfigs)
     \/ axTransport
  /\ UNCHANGED <<rmVars, chVars, hcVars, rsVars, svVars, rcVars, kgVars, extraVars>>
SpecAX == AXInit /\ [][AXNext]_vars

\* RequestManager and its cache: requests for two targets with config.cache
\* unset, true and false, and clearCache with and without a url.
rmCacheConfigs == rmKeyedConfigs(Requests, {1, 2}, {<<>>, <<TRUE>>, <<FALSE>>}, {0})
RMCacheNext ==
  /\ \/ rmArrive(rmCacheConfigs)
     \/ rmTransport(rmPlainResults)
     \/ rmWrapper
     \/ rmClearCache
  /\ UNCHANGED rmOthers
SpecRMCache == RMInit /\ [][RMCacheNext]_vars

\* CancelManager gate whose limit is changed while calls arrive and settle.
GateLimitNext == (cmArrive \/ cmSettle \/ cmSetMax) /\ UNCHANGED cmOthers
SpecGateLimit == GateInit /\ [][GateLimitNext]_vars

\* RequestManager with several requests that are retried once: arrivals,
\* transport results, retry delays and the queue's continuations.
rmBackoffConfigs == rmConfigs(Requests, {<<FALSE>>}, {1})
RMBackoffNext ==
  /\ \/ rmArrive(rmBackoffConfigs)
     \/ rmTransport({"ok", "network", "http404"})
     \/ rmRetry
     \/ rmWrapper
  /\ UNCHANGED rmOthers
SpecRMBackoff == RMInit /\ [][RMBackoffNext]_vars

\* ErrorHandler.getErrorType applied to one error.
EHInit ==
  /\ ehInit
  /\ cmIdle /\ rmIdle /\ chIdle /\ hcInit /\ rsIdle /\ svInit /\ rcIdle /\ ccIdle
  /\ kgIdle /\ axInit /\ auInit /\ rdIdle
EHNext ==
  /\ ehGetErrorType
  /\ UNCHANGED <<cmVars, rmVars, chVars, hcVars, rsVars, svVars, rcVars, ccVars, kgVars, axVars, auVars, rdVars>>
SpecEH == EHInit /\ [][EHNext]_vars

\* services Request whose responses include status 401 and an envelope with
\* code 401.
SVAuthNext ==
  /\ \/ svArrive
     \/ svTransportOf({"ok", "business", "business401", "http401"})
     \/ svDelay
  /\ UNCHANGED <<cmVars, rmVars, chVars, hcVars, rsVars, rcVars, ccVars, moreVars>>
SpecSVAuth == SVInit /\ [][SVAuthNext]_vars

\* HttpClientImpl: setAuthToken calls and requests sent, in any order.
AUInit ==
  /\ auInit /\ ehIdle
  /\ cmIdle /\ rmIdle /\ chIdle /\ hcInit /\ rsIdle /\ svInit /\ rcIdle /\ ccIdle
  /\ kgIdle /\ axInit /\ rdIdle
AUNext ==
  /\ \/ \E token \in AuthTokens : setAuthToken(token)
     \/ \E requiresAuth \in BOOLEAN : auSend(requiresAuth)
  /\ UNCHANGED <<cmVars, rmVars, chVars, hcVars, rsVars, svVars, rcVars, ccVars, kgVars, axVars, ehVars, rdVars>>
SpecAU == AUInit /\ [][AUNext]_vars

\* RetryStrategy: one executeWithRetry call under every configuration.
RDInit ==
  /\ rdInit /\ ehIdle /\ auInit
  /\ cmIdle /\ rmIdle /\ chIdle /\ hcInit /\ rsIdle /\ svInit /\ rcIdle /\ ccIdle
  /\ kgIdle /\ axInit
RDNext ==
  /\ \/ \E res \in {"ok", "network", "http404"} : rdRequestFnSettles(res)
     \/ rdTimerFires
  /\ UNCHANGED <<cmVars, rmVars, chVars, hcVars, rsVars, svVars, rcVars, ccVars, kgVars, axVars, ehVars, auVars>>
SpecRD == RDInit /\ [][RDNext]_vars

(***************************************************************************)
(* Claims.                                                                 *)
(***************************************************************************)

\* C1: with limit L, the number of request functions started and not yet
\* settled is at most L in every reachable state.
C1_AtMostLimitRunning == Cardinality(cmRunning) <= maxConcurrentRequests

\* C2: if every started request eventually settles, every request placed in the
\* wait queue is eventually started and its caller's promise settles, even when
\* no further requests arrive.
C2_QueuedEventuallySettles ==
  \A c \in Calls :
    (cmPhase[c] = "queued") ~> (cmPhase[c] \in {"resolved", "rejected"})

\* C3: waiting requests are started in arrival order, and no request that
\* arrives while an earlier request is still waiting starts before it: while c
\* is in the queue, no later arrival d has been started.
C3_NoQueueJump ==
  \A c, d \in Calls :
    (c < d /\ cmPhase[c] = "queued") => cmPhase[d] \in {"idle", "queued"}

\* The invocation of request() a caller made for request r.
rmTop(r) == {c \in rmTopLevel : rm.calls[c].cfg.id = r}

\* C4: with maxConcurrent = L, a request that was queued because L requests
\* were executing is eventually executed and its promise settles, provided
\* every transport call settles and nothing is cancelled.
C4_QueuedRequestSettles ==
  \A r \in Requests :
    (\E c \in rmTop(r) : rm.calls[c].st \in {"queued", "dequeued"})
      ~> (\E c \in rmTop(r) : rm.calls[c].st \in rmSettledStates)

\* The invocations processQueue made from the queue item of invocation p.
rmChildren(p) == {c \in DOMAIN rm.calls : rm.calls[c].parent = p}

\* C5: no slot leaks: whenever no continuation is pending, currentConcurrent
\* equals the number of requests whose executeRequest is in progress, and a
\* request that processQueue dequeued is executing, not sitting in the queue
\* again.
C5_NoSlotLeak ==
  rmQuiet =>
    /\ rm.currentConcurrent = Cardinality(rmExecuting)
    /\ \A p \in DOMAIN rm.calls :
         rm.calls[p].st = "dequeued" =>
           \A c \in rmChildren(p) : rm.calls[c].st # "queued"

\* C6: cancelRequest and cancelAllRequests release each cancelled request's
\* slot exactly once: currentConcurrent never becomes negative and at most
\* maxConcurrent requests that were not cancelled execute concurrently.
C6_CancelReleasesOnce ==
  /\ rm.currentConcurrent >= 0
  /\ Cardinality({c \in rmExecuting : ~rm.calls[c].cancelled}) <= rm.maxConcurrent

rmIs503(res) == res \in {"http503", "http503_nocode"}

\* C10: with maxRetries = N, a request whose transport fails with HTTP 503 on
\* its first k <= N tries and then succeeds is resolved after exactly k+1
\* transport invocations, so it is never rejected after fewer than N+1 tries
\* that all failed with 503; and no request makes more than N+1 invocations.
C10_Retry503ThenSuccess ==
  \A c \in DOMAIN rm.calls :
    LET h == rm.calls[c].hist
        N == maxRetriesToUse(rm.calls[c].cfg)
    IN /\ Len(h) <= N + 1
       /\ (rm.calls[c].st = "rejected" /\ \A i \in 1..Len(h) : rmIs503(h[i]))
            => Len(h) = N + 1
       /\ (rm.calls[c].st = "resolved" /\ Len(h) > 0)
            => /\ h[Len(h)] = "ok"
               /\ \A i \in 1..(Len(h) - 1) : h[i] # "ok"

\* C7: for requests that do not set skipDuplicateCheck, at most one transport
\* call made by createControlledRequest is in flight per request key, after any
\* sequence of requests, settlements, clearPendingRequests and
\* cancelAllRequests.
C7_OneTransportPerKey ==
  \A k \in Keys : Cardinality(chInFlight(k)) <= 1

\* The requests that arrived with the key of an in-flight call and were given
\* its record.
chDuplicates ==
  {r \in DOMAIN ch.reqs :
     /\ ~ch.reqs[r].skipDuplicateCheck
     /\ \E q \in 1..(r - 1) : ch.reqs[q].rec = ch.reqs[r].rec /\ ch.reqs[q].rec # 0}

\* C9: every request that arrives with the key of an in-flight call settles
\* with that call's outcome, and no such waiter is left pending once the call
\* has settled and the scheduled continuations have run.
C9_WaitersSettleWithCall ==
  \A r \in chDuplicates :
    LET st == ch.transports[ch.reqs[r].rec].st
    IN /\ ch.reqs[r].pc \in {"resolved", "rejected"} => ch.reqs[r].pc = st
       /\ (chQuiet /\ st # "inflight") => ch.reqs[r].pc = st

C11_NotFoundNotRetried ==
  \A r \in DOMAIN hc.reqs :
    (hc.reqs[r].cfg.retryCount >= 1 /\ hc.reqs[r].last = "http404") =>
      /\ hc.reqs[r].pc = "rejected"
      /\ hc.reqs[r].sent = 1

\* The errors the retry policy calls transient: network or connection
\* failure, timeout, HTTP 408, 429 and every 5xx.
rsTransient(e) ==
  \/ e.kind \in {"network", "timeout"}
  \/ e.kind = "http" /\ (e.n \in {408, 429} \/ (e.n >= 500 /\ e.n <= 599))

\* C12: shouldRetry(error, attempt, maxRetries) returns true exactly when
\* attempt < maxRetries and the error is transient, and false for every other
\* 4xx error and every business error, whatever words its message contains.
C12_ShouldRetryIffTransient ==
  rs.result # <<>> =>
    (rs.result[1] <=> (rs.retryCount < rs.maxRetries /\ rsTransient(rs.error)))

\* C13: services Request.request with retryCount >= 1: a request whose
\* transport call failed with a 4xx status or with a business error is not
\* retried (it is rejected after exactly one transport call), and a request
\* never makes more than retryCount + 1 transport calls.
C13_ClientAndBusinessErrorsNotRetried ==
  \A r \in DOMAIN sv.reqs :
    /\ (sv.reqs[r].opts.retryCount >= 1 /\ sv.reqs[r].last \in {"http404", "business"}) =>
         (sv.reqs[r].pc = "rejected" /\ sv.reqs[r].sent = 1)
    /\ sv.reqs[r].sent <= sv.reqs[r].opts.retryCount + 1

\* C14: RequestManager.request: a request whose config leaves retry unset or
\* false (no code reads config.retry, so this is every request of the model)
\* makes exactly one transport call when that call fails, and is rejected.
C14_NoRetryUnlessEnabled ==
  \A c \in DOMAIN rm.calls :
    LET h == rm.calls[c].hist
    IN (Len(h) >= 1 /\ h[1] # "ok") => (Len(h) = 1 /\ rm.calls[c].st = "rejected")

\* C15: HttpClientImpl: a request that was cancelled with cancelRequest(key)
\* or cancelAllRequests() is rejected with an error classified as cancelled:
\* the rejection carries the error code CANCEL_ERROR, or ErrorHandler gives it
\* that code, and a network failure is not given the same code.
C15_CancelledIsClassified ==
  \A r \in DOMAIN hc.reqs :
    (hc.reqs[r].pc = "rejected" /\ hc.reqs[r].last = "cancel") =>
      /\ ehNormalizeError(hcRejection("cancel")) = "CANCEL_ERROR"
      /\ ehNormalizeError(hcRejection("network")) # "CANCEL_ERROR"

\* C16: HttpClientImpl with retryCount >= 1: once a request that had a
\* transport call in flight has been cancelled and that call has ended with
\* the cancellation, the caller is rejected at once: the request neither waits
\* out a retry backoff (holding its concurrency slot) nor is tried again.
C16_CancelledRejectsAtOnce ==
  \A r \in DOMAIN hc.reqs :
    (/\ hc.reqs[r].cfg.retryCount >= 1
     /\ hc.reqs[r].sent >= 1
     /\ hc.reqs[r].token = "cancelled"
     /\ hc.reqs[r].last = "cancel") => hc.reqs[r].pc = "rejected"

\* The positions of the elements of sequence q.
seqRange(q) == {q[i] : i \in DOMAIN q}

\* C17: ConcurrencyHandler.cancelAllRequests: every caller whose request was
\* waiting for a concurrency slot is settled by the call, so a request is never
\* left waiting with its resolver no longer in waitingQueue, where nothing can
\* settle it any more.
C17_WaitersSettledByCancelAll ==
  \A r \in DOMAIN ch.reqs :
    ch.reqs[r].pc = "waiting" => r \in seqRange(ch.waitingQueue)

\* The latest set of the key that the get that has just returned asked for,
\* when that set passed a positive expire time.
rcAnswered ==
  {g \in seqRange(rc.ret) :
     /\ rc.lastSet[g.key] # <<>>
     /\ rc.lastSet[g.key][1].given \in {<<e>> : e \in 1..MaxTtl}}

\* C18: core/request CacheManager: after set(key, v, ttl) with ttl > 0, every
\* get(key) made while at most ttl has elapsed returns v, and a get(key) made
\* after more than ttl has elapsed returns null and leaves no entry for the
\* key, so size() no longer counts it.
C18_GetWithinTtl ==
  \A g \in rcAnswered :
    LET set == rc.lastSet[g.key][1]
    IN IF rc.now - set.at <= set.given[1]
         THEN g.result = set.data
         ELSE g.result = "null" /\ rc.cache[g.key] = <<>>

\* Reached: a get made more than ttl after the set has returned null and the
\* key has no entry.
C18_Witness ==
  \E g \in rcAnswered :
    LET set == rc.lastSet[g.key][1]
    IN /\ rc.now - set.at > set.given[1]
       /\ g.result = "null"
       /\ rc.cache[g.key] = <<>>

\* C19: http CacheManager: an entry stored by set with expire time T is never
\* returned by a get made more than T after it was stored, whatever
\* cache.expireTime the config of that get carries; that get removes the entry.
C19_StoredExpireTimeDecides ==
  \A g \in seqRange(cc.ret) :
    (g.found # <<>> /\ cc.now - g.found[1].timestamp > g.found[1].expireTime) =>
      /\ g.result = "null"
      /\ ccIndex(cc.cache, g.key) = 0

\* The keys whose latest set passed an expire time of 0 or below.
rcSetWithoutTtl ==
  {k \in CacheKeys :
     /\ rc.lastSet[k] # <<>>
     /\ rc.lastSet[k][1].given \in {<<e>> : e \in (-1)..0}}

\* C20: a cache set with an expire time of 0 or a negative value stores
\* nothing: after core/request CacheManager.set(key, v, expireTime <= 0) the
\* key has no entry, and every later get for it is a miss.
C20_NoTtlStoresNothing ==
  /\ \A k \in rcSetWithoutTtl : rc.cache[k] = <<>>
  /\ \A g \in seqRange(rc.ret) : g.key \in rcSetWithoutTtl => g.result = "null"

\* C21: http CacheManager with capacity 0, given to the constructor or set
\* with setCapacity(0), caches nothing: the cache holds no entry and the get
\* that has just returned was a miss.
C21_CapacityZeroDisables ==
  cc.asked = 0 =>
    /\ cc.cache = <<>>
    /\ \A g \in seqRange(cc.ret) : g.result = "null"

\* The keys of the entries of a cache.
ccKeys(cache) == {cache[i].key : i \in DOMAIN cache}

\* C22: http CacheManager.set evicts only when the insertion would exceed the
\* capacity, and then exactly the least-recently-inserted entry; overwriting
\* a cached key evicts nothing; a get that hits leaves the entries alone.
C22_EvictsOnlyOnOverflow ==
  [][(\A cfg \in ccPlainConfigs, v \in CacheValues :
        (ccEnabled(cfg) /\ ccSet(cfg, v)) =>
          LET key == generateCacheKey(cfg)
              before == ccKeys(cc.cache)
              after == ccKeys(cc'.cache)
          IN IF key \in before \/ Len(cc.cache) < cc.capacity
               THEN after = before \cup {key}
               ELSE after = (before \ {cc.cache[getOldestKey(cc.cache)].key}) \cup {key})
     /\ (\A get \in ccPlainConfigs :
           (ccGet(get) /\ cc'.ret[1].result # "null") => cc'.cache = cc.cache)]_vars

\* C23: the hit and miss counters of http CacheManager never decrease, under
\* get, set, delete, deleteByUrl, clear and setCapacity; clear() leaves them
\* as they are.
C23_CountersNeverDecrease ==
  [][/\ cc'.stats.hits >= cc.stats.hits
     /\ cc'.stats.misses >= cc.stats.misses]_vars

\* C23 (amended): the hit and miss counters of http CacheManager never
\* decrease under get, set, delete, deleteByUrl and setCapacity; clear()
\* empties the entries and sets both counters to 0.
C23_CountersResetOnlyByClear ==
  [][IF ccClear
       THEN cc'.cache = <<>> /\ cc'.stats.hits = 0 /\ cc'.stats.misses = 0
       ELSE cc'.stats.hits >= cc.stats.hits /\ cc'.stats.misses >= cc.stats.misses]_vars

\* clear() was called after a get: gets were counted and the counters are 0.
C23_Witness ==
  cc.lookups > 0 /\ cc.stats.hits = 0 /\ cc.stats.misses = 0 /\ cc.cache = <<>>

\* The two configs are the same request up to the order of the property
\* names of params and data.
kgSameRequest ==
  /\ kg.a[1].method = kg.b[1].method
  /\ kg.a[1].url = kg.b[1].url
  /\ unordered(kg.a[1].params) = unordered(kg.b[1].params)
  /\ unordered(kg.a[1].data) = unordered(kg.b[1].data)

\* C24: two requests with the same method, url, params and body, whatever the
\* order of the property names, have equal cache keys (CacheManager and
\* RequestManager) and equal dedupe keys (ConcurrencyHandler).
C24_KeyIgnoresPropertyOrder ==
  (kg.keys # <<>> /\ kgSameRequest) =>
    /\ kg.keys[1].a.cache = kg.keys[1].b.cache
    /\ kg.keys[1].a.manager = kg.keys[1].b.manager
    /\ kg.keys[1].a.dedupe = kg.keys[1].b.dedupe

\* C25: two requests that differ in method, url, params or body have
\* different CacheManager cache keys.
C25_DifferentRequestsDifferentKeys ==
  (kg.keys # <<>> /\ ~kgSameRequest) => kg.keys[1].a.cache # kg.keys[1].b.cache

\* C26: AxiosHttpClient caches only the responses of requests that succeeded:
\* no entry holds the data of a response that reported a business failure,
\* and no call is answered from the cache with such data.
C26_OnlySuccessIsCached ==
  /\ \A i \in DOMAIN cc.cache : cc.cache[i].item.data = "ok"
  /\ \A c \in Calls : ax.from[c] = "cache" => ax.res[c] = "ok"

\* C27: RequestManager.request uses the cache only for requests that ask for
\* caching: a request whose config leaves cache unset is never answered from
\* the cache, and while every request made so far left it unset nothing is
\* stored.
C27_UnsetCacheBypassesCache ==
  /\ \A c \in DOMAIN rm.calls : rm.calls[c].cfg.cache = <<>> => ~rm.calls[c].hit
  /\ (\A c \in DOMAIN rm.calls : rm.calls[c].cfg.cache = <<>>) => rm.cache = {}

\* C28: after clearCache(url), and after clearCache(), no response for that
\* url (with any params) is cached until a later response is stored for it.
C28_ClearCacheRemovesUrl ==
  \A t \in DOMAIN rmTargets :
    rmTargets[t].url \in rm.cleared =>
      RequestManager_generateCacheKey(rmTargets[t]) \notin rm.cache

\* C29: setMaxConcurrentRequests from limit L to L' with k calls running: the
\* first min(queue length, L' - k) queued calls are started and no others, so
\* that at most L' calls run afterwards; lowering the limit starts nothing and
\* leaves the running calls running.
C29_RaisingStartsUpToLimit ==
  [][maxConcurrentRequests' # maxConcurrentRequests =>
       LET k == Cardinality(cmRunning)
           free == IF maxConcurrentRequests' > k THEN maxConcurrentRequests' - k ELSE 0
           n == IF maxConcurrentRequests' < maxConcurrentRequests THEN 0
                ELSE IF Len(requestQueue) < free THEN Len(requestQueue) ELSE free
       IN /\ requestQueue' = SubSeq(requestQueue, n + 1, Len(requestQueue))
          /\ {c \in Calls : cmPhase'[c] = "running"}
               = cmRunning \cup {requestQueue[i] : i \in 1..n}]_vars

\* C30: a RequestManager request keeps its slot between retries: when a try
\* fails and the request starts waiting for its retry, and when the delay is
\* over and the retry is issued, currentConcurrent and the queue stay as they
\* are, no queued request is started, and the request stays registered; the
\* retry is a try of the same invocation of request().
C30_SlotHeldAcrossRetries ==
  [][\A c \in DOMAIN rm.calls :
       (\/ rm.calls[c].st = "executing" /\ rm'.calls[c].st = "backoff"
        \/ rm.calls[c].st = "backoff" /\ rm'.calls[c].st = "executing")
         => /\ rm'.currentConcurrent = rm.currentConcurrent
            /\ rm'.queue = rm.queue
            /\ Len(rm'.calls) = Len(rm.calls)
            /\ \A d \in DOMAIN rm.calls : d # c => rm'.calls[d] = rm.calls[d]
            /\ c \in rm'.activeRequests]_vars

\* A request is in its second try while another request waits in the queue.
C30_Witness ==
  \E c \in DOMAIN rm.calls :
    /\ rm.calls[c].st = "executing"
    /\ Len(rm.calls[c].hist) = 1
    /\ rm.queue # <<>>
    /\ rm.currentConcurrent = rm.maxConcurrent

\* C31: getErrorType returns a type for every error and never throws: by the
\* status for an error with a response (>= 500 SERVER_ERROR, 400..499
\* CLIENT_ERROR), and for an error without a response TIMEOUT_ERROR when the
\* deadline was exceeded, CANCEL_ERROR when cancelled, NETWORK_ERROR otherwise.
C31_ClassifiedByStatus ==
  eh.outcome # <<>> =>
    eh.outcome[1] =
      IF eh.error.response
        THEN IF eh.error.status >= 500 THEN "SERVER_ERROR" ELSE "CLIENT_ERROR"
      ELSE IF eh.error.code = "ECONNABORTED" THEN "TIMEOUT_ERROR"
      ELSE IF eh.error.code = "ERR_CANCELED" \/ ehIncludesCancel(eh.error.message)
        THEN "CANCEL_ERROR"
      ELSE "NETWORK_ERROR"

\* C32: every rejection of HttpClientImpl that reaches a caller carries an
\* error code and an originalError, whatever the transport call ended in.
C32_RejectionsAreNormalized ==
  \A r \in DOMAIN hc.reqs :
    hc.reqs[r].pc = "rejected" =>
      /\ hcRejection(hc.reqs[r].last).errorCode # "undefined"
      /\ hcRejection(hc.reqs[r].last).originalError

\* C33: services Request: once a response with HTTP status 401 or an envelope
\* with code 401 has been received, the stored token is cleared and the
\* window is at the login page.
C33_UnauthorizedRedirects ==
  \A r \in DOMAIN sv.reqs :
    sv.reqs[r].last \in {"http401", "business401"} =>
      ~sv.token /\ sv.location = "/login"

\* C34: a request of HttpClientImpl carries Authorization: Bearer t exactly
\* when it is flagged requiresAuth and the latest setAuthToken before it was
\* sent gave a non-null token t.
C34_BearerIffTokenSet ==
  \A i \in DOMAIN au.sent :
    au.sent[i].header =
      IF au.sent[i].requiresAuth /\ au.sent[i].token # <<>>
        THEN <<<<"Bearer", au.sent[i].token[1]>>>>
        ELSE <<>>

\* C34 (amended): a request of HttpClientImpl carries Authorization: Bearer t
\* exactly when it is flagged requiresAuth and the latest setAuthToken before
\* it was sent gave a non-empty string t; after setAuthToken(null) or
\* setAuthToken("") no request carries the header, and a request that is not
\* flagged never does.
C34_BearerIffTokenNonEmpty ==
  \A i \in DOMAIN au.sent :
    au.sent[i].header =
      IF au.sent[i].requiresAuth /\ au.sent[i].token \notin {<<>>, <<"">>}
        THEN <<<<"Bearer", au.sent[i].token[1]>>>>
        ELSE <<>>

\* A flagged request was sent with a token, and another after the token was
\* set back to null.
C34_Witness ==
  \E i, j \in DOMAIN au.sent :
    /\ i < j
    /\ au.sent[i].requiresAuth /\ au.sent[i].header = <<<<"Bearer", "t1">>>>
    /\ au.sent[j].requiresAuth /\ au.sent[j].token = <<>> /\ au.sent[j].header = <<>>

\* The claims of C35 that do not depend on how baseDelay compares with
\* maxDelay: under exponential backoff the timer set after failed try n has
\* delay min(baseDelay * 2^n, maxDelay), the delays never decrease and none
\* exceeds maxDelay.
rdBackoffDelays ==
  rd.config.exponentialBackoff =>
    /\ \A i \in DOMAIN rd.timers :
         /\ rd.timers[i].retryCount = i - 1
         /\ rd.timers[i].delay =
              min(rd.config.baseDelay * pow2(i - 1), rd.config.maxDelay)
         /\ rd.timers[i].delay <= rd.config.maxDelay
    /\ \A i, j \in DOMAIN rd.timers :
         i <= j => rd.timers[i].delay <= rd.timers[j].delay

\* C35: with exponential backoff getRetryDelay(n) = min(baseDelay * 2^n,
\* maxDelay), the first retry waits baseDelay, the delay never decreases with
\* n and never exceeds maxDelay, and executeWithRetry waits getRetryDelay(n)
\* before the retry that follows failed try n.
C35_BackoffFirstWaitsBase ==
  /\ rdBackoffDelays
  /\ rd.config.exponentialBackoff /\ rd.timers # <<>>
       => rd.timers[1].delay = rd.config.baseDelay

\* C35 (amended): as above, and the first retry waits baseDelay when
\* baseDelay <= maxDelay, and maxDelay otherwise.
C35_BackoffFirstWaitsCapped ==
  /\ rdBackoffDelays
  /\ rd.config.exponentialBackoff /\ rd.timers # <<>>
       => rd.timers[1].delay = min(rd.config.baseDelay, rd.config.maxDelay)

\* Three retries were waited for, the third one with the capped delay.
C35_Witness ==
  /\ rd.config.exponentialBackoff
  /\ rd.config.baseDelay = 2 /\ rd.config.maxDelay = 4
  /\ Len(rd.timers) = 3
  /\ rd.timers[1].delay = 2 /\ rd.timers[2].delay = 4 /\ rd.timers[3].delay = 4
  /\ rd.pc = "trying" /\ rd.retryCount = 3

\* The request that made transport call t: the first one that holds it.
chCreator(t) == CHOOSE r \in DOMAIN ch.reqs :
                  /\ ch.reqs[r].rec = t
                  /\ \A q \in DOMAIN ch.reqs : ch.reqs[q].rec = t => r <= q

chGated(r) == ~ch.reqs[r].skipDuplicateCheck /\ ~ch.reqs[r].skipConcurrencyControl

\* C36: the transport call of a new request that goes through the gate is not
\* started while the request waits for a slot, and the transport calls in
\* flight made by such requests never outnumber maxConcurrent.
C36_TransportAfterSlot ==
  /\ \A t \in DOMAIN ch.transports :
       chGated(chCreator(t)) => ch.reqs[chCreator(t)].pc # "waiting"
  /\ Cardinality({t \in DOMAIN ch.transports :
                    ch.transports[t].st = "inflight" /\ chGated(chCreator(t))})
       <= ch.maxConcurrent

\* C37: the entry of pendingRequests for a key belongs to a call in flight,
\* and it is removed only in the step in which the call that created it
\* settles (or by clearPendingRequests and cancelAllRequests, which empty the
\* map).
C37_EntryRemovedByOwnSettlement ==
  [][\A k \in Keys :
       /\ ch'.pendingRequests[k] # 0
            => ch'.transports[ch'.pendingRequests[k]].st = "inflight"
       /\ (ch.pendingRequests[k] # 0 /\ ch'.pendingRequests[k] # ch.pendingRequests[k])
            => \/ /\ ch.transports[ch.pendingRequests[k]].st = "inflight"
                  /\ ch'.transports[ch.pendingRequests[k]].st # "inflight"
               \/ ch'.pendingRequests = [j \in Keys |-> 0]]_vars

\* C38: however the interceptors of the requests interleave,
\* executingRequests.size never exceeds maxConcurrent (so that a waiter woken
\* by processWaitingQueue has the freed slot to itself).
C38_ExecutingWithinLimit ==
  Cardinality(ch.executingRequests) <= ch.maxConcurrent

\* C39: a request of HttpClientImpl whose transport call is in flight with a
\* live token is the one recorded in CancelManager.requestMap under its key,
\* so that cancelRequest(key) aborts it.
C39_InFlightIsRecorded ==
  \A r \in DOMAIN hc.reqs :
    (hc.reqs[r].pc = "inflight" /\ hc.reqs[r].token = "live") =>
      hc.requestMap[generateRequestKey(hc.reqs[r].cfg)] = r

\* C40: after any sequence of set, get, delete, deleteByUrl, clear and
\* setCapacity calls on the http CacheManager the number of entries is at most
\* the capacity and getStats().size is the number of entries.
C40_SizeWithinCapacityAndCounted ==
  /\ Len(cc.cache) <= cc.capacity
  /\ cc.stats.size = Len(cc.cache)

====
